---- MODULE Spec2Model ----
(***************************************************************************)
(* Card lifecycle of kanban-mvp: the dual-backend server (src/server.js,   *)
(* lines 737-1720) running on its PostgreSQL backend (isPostgres = TRUE),  *)
(* where every handler talks to the store through the one pg Client held   *)
(* by PostgresWrapper.  A handler runs synchronously up to its next        *)
(* `await`; every db call appends one statement to the client's FIFO       *)
(* queue, the statements run one at a time on the single session, and the  *)
(* handler that awaited a statement continues when that statement has run. *)
(* BEGIN / COMMIT / ROLLBACK therefore act on the one session transaction  *)
(* that all in-flight requests share.                                      *)
(***************************************************************************)
EXTENDS Integers, Sequences, FiniteSets, TLC

\* ---------------------------------------------------------------- bounds
MaxReqs == 2
MaxCards == 1

Rids == 1..MaxReqs
Ids == 1..MaxCards

\* ------------------------------------------------------ JavaScript values
Undefined == "undefined"
Null == "null"

Falsy(x) == x \in {Undefined, Null, ""}

\* a || b
Or(a, b) == IF Falsy(a) THEN b ELSE a

\* String.prototype.toLowerCase on the role strings that occur
ToLowerCase(s) ==
    CASE s = "Founder" -> "founder"
      [] s = "Agent" -> "agent"
      [] s = "Member" -> "member"
      [] OTHER -> s

\* ------------------------------------------------------------ vocabulary
Statuses == {"Backlog", "To Do", "Agent Inbox", "Ongoing", "Review", "Done"}

\* status strings a request body may carry: the six and one that is none of
\* them
BodyStatuses == Statuses \cup {"Archived"}

OWNER_PASSWORD == "kanban123"
AGENT_API_KEY == "agent-key"

ROLES == [FOUNDER |-> "founder", AGENT |-> "agent", MEMBER |-> "member"]

\* request headers of the callers that occur: the owner (password, also
\* holding the api key), an agent, a caller that names no role, and a caller
\* whose api key and password are both wrong
Headers ==
    { [apiKey |-> AGENT_API_KEY, password |-> OWNER_PASSWORD,
       agentId |-> Undefined, agentRole |-> Undefined],
      [apiKey |-> AGENT_API_KEY, password |-> Undefined,
       agentId |-> "alice", agentRole |-> "agent"],
      [apiKey |-> AGENT_API_KEY, password |-> Undefined,
       agentId |-> "bob", agentRole |-> Undefined],
      [apiKey |-> "wrong-key", password |-> "wrong-password",
       agentId |-> "mallory", agentRole |-> "founder"] }

authMiddleware(h) == h.password = OWNER_PASSWORD

\* agentAuthMiddleware letting every api key pass
agentAuthMiddleware_Open(h) == TRUE

agentAuthMiddleware(h) == ~Falsy(h.apiKey) /\ h.apiKey = AGENT_API_KEY

getAgentIdentity(h) ==
    IF ~Falsy(h.password) /\ h.password = OWNER_PASSWORD
    THEN [agentId |-> "owner", agentRole |-> "founder"]
    ELSE [agentId |-> Or(h.agentId, Or(h.password, "unknown")),
          agentRole |-> Or(h.agentRole, "member")]

\* ------------------------------------------------------------ the policy
isUnassigned(task) == Falsy(task.owner_agent)

Allowed == [allowed |-> TRUE, reason |-> Undefined]
Denied(why) == [allowed |-> FALSE, reason |-> why]

\* validateUnassignedAction without the lock
validateUnassignedAction_NoLock(task, agentInfo) == Allowed

validateUnassignedAction(task, agentInfo) ==
    LET role == ToLowerCase(Or(agentInfo.agentRole, ""))
    IN  IF isUnassigned(task) /\ role # ROLES.FOUNDER
        THEN Denied("Only Founder can modify unassigned tasks")
        ELSE Allowed

\* validateClaimAction that lets only agents claim
validateClaimAction_AgentOnly(task, agentInfo) ==
    LET role == ToLowerCase(Or(agentInfo.agentRole, ""))
    IN  IF role # ROLES.AGENT
        THEN Denied("Only Founder or Agents can claim tasks")
        ELSE IF ~isUnassigned(task)
        THEN Denied("Task is already assigned")
        ELSE Allowed

\* validateClaimAction without the role check
validateClaimAction_AnyRole(task, agentInfo) ==
    IF ~isUnassigned(task)
    THEN Denied("Task is already assigned")
    ELSE Allowed

validateClaimAction(task, agentInfo) ==
    LET role == ToLowerCase(Or(agentInfo.agentRole, ""))
    IN  IF role # ROLES.FOUNDER /\ role # ROLES.AGENT
        THEN Denied("Only Founder or Agents can claim tasks")
        ELSE IF ~isUnassigned(task)
        THEN Denied("Task is already assigned")
        ELSE Allowed

\* TRANSITION_RULES with To Do as one more source of Review
TRANSITION_RULES_ReviewFromToDo ==
    [s \in {"Ongoing", "Done", "Review"} |->
        CASE s = "Ongoing" ->
                [requiresOwnership |-> TRUE, requiresFounder |-> FALSE,
                 fromStatuses |-> {"To Do", "Backlog", "Agent Inbox"}]
          [] s = "Done" ->
                [requiresOwnership |-> FALSE, requiresFounder |-> TRUE,
                 fromStatuses |-> {"Review", "Ongoing"}]
          [] s = "Review" ->
                [requiresOwnership |-> TRUE, requiresFounder |-> FALSE,
                 fromStatuses |-> {"Ongoing", "To Do"}]]

\* TRANSITION_RULES with Done as one more source of Ongoing
TRANSITION_RULES_OngoingFromDone ==
    [s \in {"Ongoing", "Done", "Review"} |->
        CASE s = "Ongoing" ->
                [requiresOwnership |-> TRUE, requiresFounder |-> FALSE,
                 fromStatuses |-> {"To Do", "Backlog", "Agent Inbox", "Done"}]
          [] s = "Done" ->
                [requiresOwnership |-> FALSE, requiresFounder |-> TRUE,
                 fromStatuses |-> {"Review", "Ongoing"}]
          [] s = "Review" ->
                [requiresOwnership |-> TRUE, requiresFounder |-> FALSE,
                 fromStatuses |-> {"Ongoing"}]]

TRANSITION_RULES ==
    [s \in {"Ongoing", "Done", "Review"} |->
        CASE s = "Ongoing" ->
                [requiresOwnership |-> TRUE, requiresFounder |-> FALSE,
                 fromStatuses |-> {"To Do", "Backlog", "Agent Inbox"}]
          [] s = "Done" ->
                [requiresOwnership |-> FALSE, requiresFounder |-> TRUE,
                 fromStatuses |-> {"Review", "Ongoing"}]
          [] s = "Review" ->
                [requiresOwnership |-> TRUE, requiresFounder |-> FALSE,
                 fromStatuses |-> {"Ongoing"}]]

\* validateTransition without the founder gate of the Done rule
validateTransition_NoFounderGate(task, newStatus, agentInfo) ==
    LET unassignedCheck == validateUnassignedAction(task, agentInfo)
        actorRole == ToLowerCase(Or(agentInfo.agentRole, ""))
        isOwner == task.owner_agent = agentInfo.agentId
                   \/ task.assignee = agentInfo.agentId
        isFounder == actorRole = ROLES.FOUNDER
    IN  IF ~unassignedCheck.allowed THEN unassignedCheck
        ELSE IF newStatus \notin DOMAIN TRANSITION_RULES THEN Allowed
        ELSE LET rule == TRANSITION_RULES[newStatus]
             IN  IF task.status \notin rule.fromStatuses
                 THEN Denied("Cannot transition from this status")
                 ELSE IF rule.requiresOwnership /\ ~isOwner /\ ~isFounder
                 THEN Denied("Only the assigned agent can move")
                 ELSE Allowed

\* validateTransition that takes only owner_agent, not assignee, as ownership
validateTransition_OwnerAgentOnly(task, newStatus, agentInfo) ==
    LET unassignedCheck == validateUnassignedAction(task, agentInfo)
        actorRole == ToLowerCase(Or(agentInfo.agentRole, ""))
        isOwner == task.owner_agent = agentInfo.agentId
        isFounder == actorRole = ROLES.FOUNDER
    IN  IF ~unassignedCheck.allowed THEN unassignedCheck
        ELSE IF newStatus \notin DOMAIN TRANSITION_RULES THEN Allowed
        ELSE LET rule == TRANSITION_RULES[newStatus]
             IN  IF task.status \notin rule.fromStatuses
                 THEN Denied("Cannot transition from this status")
                 ELSE IF rule.requiresFounder /\ actorRole # ROLES.FOUNDER
                 THEN Denied("Only Founder can complete this transition")
                 ELSE IF rule.requiresOwnership /\ ~isOwner /\ ~isFounder
                 THEN Denied("Only the assigned agent can move")
                 ELSE Allowed

\* validateTransition that asks for ownership also where there is no rule
validateTransition_OwnershipEverywhere(task, newStatus, agentInfo) ==
    LET unassignedCheck == validateUnassignedAction(task, agentInfo)
        actorRole == ToLowerCase(Or(agentInfo.agentRole, ""))
        isOwner == task.owner_agent = agentInfo.agentId
                   \/ task.assignee = agentInfo.agentId
        isFounder == actorRole = ROLES.FOUNDER
    IN  IF ~unassignedCheck.allowed THEN unassignedCheck
        ELSE IF newStatus \notin DOMAIN TRANSITION_RULES
        THEN IF ~isOwner /\ ~isFounder
             THEN Denied("Only the assigned agent can move")
             ELSE Allowed
        ELSE LET rule == TRANSITION_RULES[newStatus]
             IN  IF task.status \notin rule.fromStatuses
                 THEN Denied("Cannot transition from this status")
                 ELSE IF rule.requiresFounder /\ actorRole # ROLES.FOUNDER
                 THEN Denied("Only Founder can complete this transition")
                 ELSE IF rule.requiresOwnership /\ ~isOwner /\ ~isFounder
                 THEN Denied("Only the assigned agent can move")
                 ELSE Allowed

validateTransition(task, newStatus, agentInfo) ==
    LET unassignedCheck == validateUnassignedAction(task, agentInfo)
        actorRole == ToLowerCase(Or(agentInfo.agentRole, ""))
        isOwner == task.owner_agent = agentInfo.agentId
                   \/ task.assignee = agentInfo.agentId
        isFounder == actorRole = ROLES.FOUNDER
    IN  IF ~unassignedCheck.allowed THEN unassignedCheck
        ELSE IF newStatus \notin DOMAIN TRANSITION_RULES THEN Allowed
        ELSE LET rule == TRANSITION_RULES[newStatus]
             IN  IF task.status \notin rule.fromStatuses
                 THEN Denied("Cannot transition from this status")
                 ELSE IF rule.requiresFounder /\ actorRole # ROLES.FOUNDER
                 THEN Denied("Only Founder can complete this transition")
                 ELSE IF rule.requiresOwnership /\ ~isOwner /\ ~isFounder
                 THEN Denied("Only the assigned agent can move")
                 ELSE Allowed


\* ----------------------------------------------------------------- state
VARIABLES
    tasks,          \* table tasks: card id -> row, NoRow when there is none
    activity_log,   \* table activity_log: the rows in insertion order
    comments,       \* table comments: the rows in insertion order
    txn,            \* the session's transaction: open or not, and what a
                    \* ROLLBACK restores
    clock,          \* the store's time; every statement runs at a new instant
    queue,          \* the pg client's statement queue, head runs next
    reqs,           \* the requests received so far: handler position,
                    \* locals and response
    nreq,           \* how many requests have been received
    nextId,         \* the next fresh card id
    stored,         \* the tasks table as it was when the server started
    probe           \* one call of the policy functions: arguments and result

vars == <<tasks, activity_log, comments, txn, clock, queue, reqs, nreq, nextId,
          stored, probe>>

NoRow == [title |-> Undefined, status |-> Undefined, owner_agent |-> Undefined,
          assignee |-> Undefined, updated_at |-> -1]

NoTxn == [active |-> FALSE, start |-> 0,
          tasks |-> [i \in Ids |-> NoRow], activity_log |-> <<>>,
          comments |-> <<>>]

NoInfo == [agentId |-> Undefined, agentRole |-> Undefined]

NoRes == [reason |-> Undefined, from_status |-> Undefined,
          to_status |-> Undefined, owner_agent |-> Undefined]

\* req.body of a create as it arrived
NoBody == [title |-> Undefined, status |-> Undefined,
           owner_agent |-> Undefined, content |-> Undefined]

NoReq == [kind |-> "none", agentInfo |-> NoInfo, id |-> 0,
          status |-> Undefined, owner_agent |-> Undefined, body |-> NoBody,
          pc |-> "idle", task |-> NoRow, code |-> 0, res |-> NoRes]

NoResult == [allowed |-> FALSE, reason |-> "not decided"]

NoProbe == [task |-> NoRow, newStatus |-> Undefined, agentInfo |-> NoInfo,
            transition |-> NoResult, claim |-> NoResult]

NoLog == [action |-> "none", task_id |-> 0, agent_id |-> Undefined,
          agent_role |-> Undefined, from_status |-> Undefined,
          to_status |-> Undefined, transition_allowed |-> 0,
          denial_reason |-> Null]

\* rows the tasks table can hold when the server starts: the server is
\* started on a database that persists; owner_agent is NULL in rows written
\* before the column was added (ALTER TABLE ... ADD COLUMN owner_agent)
StoredStatuses == Statuses

\* owner_agent and assignee of a stored card: unassigned, owned by alice,
\* owned by bob with alice as the (legacy) assignee
StoredOwnership ==
    { [owner_agent |-> Null, assignee |-> ""],
      [owner_agent |-> "alice", assignee |-> ""],
      [owner_agent |-> "bob", assignee |-> "alice"] }

\* the tasks table at start: empty, or holding card 1
StoredTasks ==
    {[i \in Ids |-> NoRow]} \cup
    {[i \in Ids |-> IF i = 1
                    THEN [title |-> "t", status |-> st,
                          owner_agent |-> o.owner_agent,
                          assignee |-> o.assignee, updated_at |-> 0]
                    ELSE NoRow] :
        st \in StoredStatuses, o \in StoredOwnership}

Init ==
    /\ tasks \in StoredTasks
    /\ activity_log = <<>>
    /\ comments = <<>>
    /\ txn = NoTxn
    /\ clock = 0
    /\ queue = <<>>
    /\ reqs = [r \in Rids |-> NoReq]
    /\ nreq = 0
    /\ nextId = IF tasks[1] = NoRow THEN 1 ELSE 2
    /\ stored = tasks
    /\ probe = NoProbe

\* ------------------------------------------------------------- the store
\* now(): CURRENT_TIMESTAMP is the start of the open transaction, or the
\* time of the statement itself
now == IF txn.active THEN txn.start ELSE clock + 1

Query(r, sql) == [rid |-> r, sql |-> sql, row |-> NoLog]

\* client.query('BEGIN'): a BEGIN inside the open transaction changes nothing
Begin ==
    /\ txn' = IF txn.active THEN txn
              ELSE [active |-> TRUE, start |-> clock + 1,
                    tasks |-> tasks, activity_log |-> activity_log,
                    comments |-> comments]
    /\ UNCHANGED <<tasks, activity_log, comments>>

\* client.query('COMMIT')
Commit ==
    /\ txn' = NoTxn
    /\ UNCHANGED <<tasks, activity_log, comments>>

\* client.query('ROLLBACK'): discards everything the session wrote since the
\* transaction was opened
Rollback ==
    /\ txn' = NoTxn
    /\ tasks' = IF txn.active THEN txn.tasks ELSE tasks
    /\ activity_log' = IF txn.active THEN txn.activity_log ELSE activity_log
    /\ comments' = IF txn.active THEN txn.comments ELSE comments

\* UPDATE tasks SET ... without the WHERE clause: every row is written
UpdateRow_NoWhere(id, row) ==
    /\ tasks' = [i \in DOMAIN tasks |-> IF tasks[i] = NoRow THEN NoRow ELSE row]
    /\ UNCHANGED <<txn, activity_log, comments>>

\* UPDATE tasks SET ... WHERE id = $n: no row, no change
UpdateRow(id, row) ==
    /\ tasks' = IF tasks[id] = NoRow THEN tasks ELSE [tasks EXCEPT ![id] = row]
    /\ UNCHANGED <<txn, activity_log, comments>>

\* DELETE FROM tasks that cascades to the rows that refer to the card
DeleteRow_Cascade(id) ==
    /\ tasks' = [tasks EXCEPT ![id] = NoRow]
    /\ activity_log' = SelectSeq(activity_log, LAMBDA row : row.task_id # id)
    /\ comments' = SelectSeq(comments, LAMBDA row : row.task_id # id)
    /\ UNCHANGED txn

\* DELETE FROM tasks WHERE id = $1
DeleteRow(id) ==
    /\ tasks' = [tasks EXCEPT ![id] = NoRow]
    /\ UNCHANGED <<txn, activity_log, comments>>

\* ------------------------------------------------------------ logging
ToBit(allowed) == IF allowed = "true" THEN 1 ELSE 0

NoTransitionInfo == [fromStatus |-> Undefined, toStatus |-> Undefined,
                     allowed |-> Undefined, denialReason |-> Undefined]

\* the INSERT logActivity hands to db.run without awaiting it
logActivity(action, taskId, agentInfo, transitionInfo) ==
    [rid |-> 0, sql |-> "INSERT activity_log",
     row |-> [action |-> action, task_id |-> taskId,
              agent_id |-> agentInfo.agentId,
              agent_role |-> agentInfo.agentRole,
              from_status |-> transitionInfo.fromStatus,
              to_status |-> transitionInfo.toStatus,
              transition_allowed |-> ToBit(transitionInfo.allowed),
              denial_reason |-> Or(transitionInfo.denialReason, Null)]]

logTransitionAttempt(taskId, fromStatus, toStatus, agentInfo, allowed, denialReason) ==
    logActivity("transition", taskId, agentInfo,
                [fromStatus |-> fromStatus, toStatus |-> toStatus,
                 allowed |-> allowed, denialReason |-> denialReason])

\* ------------------------------------------------------ handler plumbing
\* the statement at the head of the queue is the one request r awaits
Awaits(r, sql, pc) ==
    /\ queue # <<>>
    /\ Head(queue).rid = r
    /\ Head(queue).sql = sql
    /\ reqs[r].pc = pc

\* the statement has run; the handler goes on and issues `more`
Continue(r, pc, more) ==
    /\ reqs' = [reqs EXCEPT ![r].pc = pc]
    /\ queue' = Tail(queue) \o more
    /\ clock' = clock + 1
    /\ UNCHANGED <<nreq, nextId, stored, probe>>

\* the same, having read `task`
ContinueWith(r, task, pc, more) ==
    /\ reqs' = [reqs EXCEPT ![r].pc = pc, ![r].task = task]
    /\ queue' = Tail(queue) \o more
    /\ clock' = clock + 1
    /\ UNCHANGED <<nreq, nextId, stored, probe>>

\* the statement has run; the handler issues `more` and sends its response
Respond(r, task, code, res, more) ==
    /\ reqs' = [reqs EXCEPT ![r].pc = "done", ![r].task = task,
                            ![r].code = code, ![r].res = res]
    /\ queue' = Tail(queue) \o more
    /\ clock' = clock + 1
    /\ UNCHANGED <<nreq, nextId, stored, probe>>

\* a request arrives: the handler runs up to its first await
Receive(req, first) ==
    /\ nreq < MaxReqs
    /\ nreq' = nreq + 1
    /\ reqs' = [reqs EXCEPT ![nreq + 1] = req]
    /\ queue' = queue \o first
    /\ UNCHANGED <<tasks, activity_log, comments, txn, clock, stored, probe>>

\* a request that is answered before it touches the store
Reject(kind, code) == [NoReq EXCEPT !.kind = kind, !.pc = "done", !.code = code]


\* ------------------------------------- POST /api/cards/:id/claim
ReceiveClaim(h, id) ==
    IF ~agentAuthMiddleware(h)
    THEN Receive(Reject("claim", 401), <<>>) /\ UNCHANGED nextId
    ELSE /\ Receive([NoReq EXCEPT !.kind = "claim", !.id = id,
                                  !.agentInfo = getAgentIdentity(h),
                                  !.pc = "begin"],
                    <<Query(nreq + 1, "BEGIN")>>)
         /\ UNCHANGED nextId

ClaimBegun(r) ==
    /\ Awaits(r, "BEGIN", "begin") /\ reqs[r].kind = "claim"
    /\ Begin
    /\ Continue(r, "select", <<Query(r, "SELECT")>>)

ClaimSelected(r) ==
    /\ Awaits(r, "SELECT", "select") /\ reqs[r].kind = "claim"
    /\ UNCHANGED <<tasks, activity_log, comments, txn>>
    /\ LET task == tasks[reqs[r].id]
       IN  IF task = NoRow
           THEN ContinueWith(r, task, "notfound", <<Query(r, "ROLLBACK")>>)
           ELSE IF ~validateClaimAction(task, reqs[r].agentInfo).allowed
           THEN ContinueWith(r, task, "denied", <<Query(r, "ROLLBACK")>>)
           ELSE ContinueWith(r, task, "update", <<Query(r, "UPDATE")>>)

ClaimRolledBack(r) ==
    /\ queue # <<>> /\ Head(queue).rid = r /\ Head(queue).sql = "ROLLBACK"
    /\ reqs[r].kind = "claim" /\ reqs[r].pc \in {"notfound", "denied"}
    /\ Rollback
    /\ LET q == reqs[r]
           claimValidation == validateClaimAction(q.task, q.agentInfo)
       IN  IF q.pc = "notfound"
           THEN Respond(r, q.task, 404, NoRes, <<>>)
           ELSE Respond(r, q.task, 409,
                        [NoRes EXCEPT !.reason = claimValidation.reason,
                                      !.owner_agent = q.task.owner_agent],
                        <<logActivity("claim_denied", q.id, q.agentInfo,
                                      NoTransitionInfo)>>)

ClaimUpdated(r) ==
    /\ Awaits(r, "UPDATE", "update") /\ reqs[r].kind = "claim"
    /\ UpdateRow(reqs[r].id,
                 [tasks[reqs[r].id] EXCEPT
                     !.owner_agent = reqs[r].agentInfo.agentId,
                     !.updated_at = now])
    /\ Continue(r, "commit", <<Query(r, "COMMIT")>>)

ClaimCommitted(r) ==
    /\ Awaits(r, "COMMIT", "commit") /\ reqs[r].kind = "claim"
    /\ Commit
    /\ LET q == reqs[r]
       IN  Respond(r, q.task, 200,
                   [NoRes EXCEPT !.owner_agent = q.agentInfo.agentId],
                   <<logActivity("claim", q.id, q.agentInfo, NoTransitionInfo)>>)

\* ------------------------------------- POST /api/tasks/:id/claim
\* the claim of the owner scheme: no transaction, SELECT then UPDATE
ReceiveTaskClaim(h, id) ==
    IF ~authMiddleware(h)
    THEN Receive(Reject("taskClaim", 401), <<>>) /\ UNCHANGED nextId
    ELSE /\ Receive([NoReq EXCEPT !.kind = "taskClaim", !.id = id,
                                  !.agentInfo = getAgentIdentity(h),
                                  !.pc = "select"],
                    <<Query(nreq + 1, "SELECT")>>)
         /\ UNCHANGED nextId

TaskClaimSelected(r) ==
    /\ Awaits(r, "SELECT", "select") /\ reqs[r].kind = "taskClaim"
    /\ UNCHANGED <<tasks, activity_log, comments, txn>>
    /\ LET q == reqs[r]
           task == tasks[q.id]
           claimValidation == validateClaimAction(task, q.agentInfo)
       IN  IF task = NoRow
           THEN Respond(r, task, 404, NoRes, <<>>)
           ELSE IF ~claimValidation.allowed
           THEN Respond(r, task, 403,
                        [NoRes EXCEPT !.reason = claimValidation.reason],
                        <<logActivity("claim_denied", q.id, q.agentInfo,
                                      NoTransitionInfo)>>)
           ELSE ContinueWith(r, task, "update", <<Query(r, "UPDATE")>>)

TaskClaimUpdated(r) ==
    /\ Awaits(r, "UPDATE", "update") /\ reqs[r].kind = "taskClaim"
    /\ UpdateRow(reqs[r].id,
                 [tasks[reqs[r].id] EXCEPT
                     !.owner_agent = reqs[r].agentInfo.agentId,
                     !.updated_at = now])
    /\ LET q == reqs[r]
       IN  Respond(r, q.task, 200,
                   [NoRes EXCEPT !.owner_agent = q.agentInfo.agentId],
                   <<logActivity("claim", q.id, q.agentInfo, NoTransitionInfo)>>)

\* ------------------------------------- POST /api/cards/:id/transition
ReceiveTransition(h, id, newStatus) ==
    IF ~agentAuthMiddleware(h)
    THEN Receive(Reject("transition", 401), <<>>) /\ UNCHANGED nextId
    ELSE IF Falsy(newStatus)
    THEN Receive(Reject("transition", 400), <<>>) /\ UNCHANGED nextId
    ELSE /\ Receive([NoReq EXCEPT !.kind = "transition", !.id = id,
                                  !.status = newStatus,
                                  !.agentInfo = getAgentIdentity(h),
                                  !.pc = "begin"],
                    <<Query(nreq + 1, "BEGIN")>>)
         /\ UNCHANGED nextId

TransitionBegun(r) ==
    /\ Awaits(r, "BEGIN", "begin") /\ reqs[r].kind = "transition"
    /\ Begin
    /\ Continue(r, "select", <<Query(r, "SELECT")>>)

TransitionSelected(r) ==
    /\ Awaits(r, "SELECT", "select") /\ reqs[r].kind = "transition"
    /\ UNCHANGED <<tasks, activity_log, comments, txn>>
    /\ LET task == tasks[reqs[r].id]
       IN  IF task = NoRow
           THEN ContinueWith(r, task, "notfound", <<Query(r, "ROLLBACK")>>)
           ELSE IF ~validateTransition(task, reqs[r].status, reqs[r].agentInfo).allowed
           THEN ContinueWith(r, task, "denied", <<Query(r, "ROLLBACK")>>)
           ELSE ContinueWith(r, task, "update", <<Query(r, "UPDATE")>>)

TransitionRolledBack(r) ==
    /\ queue # <<>> /\ Head(queue).rid = r /\ Head(queue).sql = "ROLLBACK"
    /\ reqs[r].kind = "transition" /\ reqs[r].pc \in {"notfound", "denied"}
    /\ Rollback
    /\ LET q == reqs[r]
           validation == validateTransition(q.task, q.status, q.agentInfo)
       IN  IF q.pc = "notfound"
           THEN Respond(r, q.task, 404, NoRes, <<>>)
           ELSE Respond(r, q.task, 403,
                        [NoRes EXCEPT !.reason = validation.reason,
                                      !.from_status = q.task.status,
                                      !.to_status = q.status],
                        <<logTransitionAttempt(q.id, q.task.status, q.status,
                                               q.agentInfo, "false",
                                               validation.reason)>>)

TransitionUpdated(r) ==
    /\ Awaits(r, "UPDATE", "update") /\ reqs[r].kind = "transition"
    /\ UpdateRow(reqs[r].id,
                 [tasks[reqs[r].id] EXCEPT !.status = reqs[r].status,
                                           !.updated_at = now])
    /\ Continue(r, "commit", <<Query(r, "COMMIT")>>)

TransitionCommitted(r) ==
    /\ Awaits(r, "COMMIT", "commit") /\ reqs[r].kind = "transition"
    /\ Commit
    /\ LET q == reqs[r]
       IN  Respond(r, q.task, 200,
                   [NoRes EXCEPT !.from_status = q.task.status,
                                 !.to_status = q.status],
                   <<logTransitionAttempt(q.id, q.task.status, q.status,
                                          q.agentInfo, "true", Null)>>)

\* ------------------------------------- the fire-and-forget log INSERT
LogInserted ==
    /\ queue # <<>> /\ Head(queue).rid = 0
    /\ activity_log' = Append(activity_log, Head(queue).row)
    /\ queue' = Tail(queue)
    /\ clock' = clock + 1
    /\ UNCHANGED <<tasks, comments, txn, reqs, nreq, nextId, stored, probe>>


\* ------------------------------------- POST /api/cards
\* the handler does not read owner_agent from the body
ReceiveCreateCard(h, title, status, owner_agent) ==
    IF ~agentAuthMiddleware(h)
    THEN Receive(Reject("createCard", 401), <<>>) /\ UNCHANGED nextId
    ELSE /\ nextId <= MaxCards
         /\ Receive([NoReq EXCEPT !.kind = "createCard", !.id = nextId,
                                  !.body = [NoBody EXCEPT
                                               !.title = title,
                                               !.status = status,
                                               !.owner_agent = owner_agent],
                                  !.status = Or(status, "Agent Inbox"),
                                  !.owner_agent = getAgentIdentity(h).agentId,
                                  !.agentInfo = getAgentIdentity(h),
                                  !.pc = "insert"],
                    <<Query(nreq + 1, "INSERT")>>)
         /\ nextId' = nextId + 1

\* ------------------------------------- POST /api/tasks
ReceiveCreateTask(h, title, status, owner_agent) ==
    IF ~authMiddleware(h)
    THEN Receive(Reject("createTask", 401), <<>>) /\ UNCHANGED nextId
    ELSE /\ nextId <= MaxCards
         /\ Receive([NoReq EXCEPT !.kind = "createTask", !.id = nextId,
                                  !.body = [NoBody EXCEPT
                                               !.title = title,
                                               !.status = status,
                                               !.owner_agent = owner_agent],
                                  !.status = Or(status, "Backlog"),
                                  !.owner_agent = Or(owner_agent,
                                                     getAgentIdentity(h).agentId),
                                  !.agentInfo = getAgentIdentity(h),
                                  !.pc = "insert"],
                    <<Query(nreq + 1, "INSERT")>>)
         /\ nextId' = nextId + 1

\* INSERT INTO tasks ... of either create handler, then log and respond
TaskInserted(r) ==
    /\ Awaits(r, "INSERT", "insert")
    /\ reqs[r].kind \in {"createCard", "createTask"}
    /\ tasks' = [tasks EXCEPT ![reqs[r].id] =
                    [title |-> reqs[r].body.title,
                     status |-> reqs[r].status,
                     owner_agent |-> reqs[r].owner_agent,
                     assignee |-> "", updated_at |-> now]]
    /\ UNCHANGED <<txn, activity_log, comments>>
    /\ LET q == reqs[r]
       IN  Respond(r, NoRow, IF q.kind = "createCard" THEN 201 ELSE 200, NoRes,
                   <<logActivity("create", q.id, q.agentInfo, NoTransitionInfo)>>)

\* ------------------------------------- PUT /api/tasks/:id
ReceivePutTask(h, id, status, owner_agent) ==
    IF ~authMiddleware(h)
    THEN Receive(Reject("putTask", 401), <<>>) /\ UNCHANGED nextId
    ELSE /\ Receive([NoReq EXCEPT !.kind = "putTask", !.id = id,
                                  !.status = status,
                                  !.owner_agent = owner_agent,
                                  !.agentInfo = getAgentIdentity(h),
                                  !.pc = "select"],
                    <<Query(nreq + 1, "SELECT")>>)
         /\ UNCHANGED nextId

\* PUT /api/tasks/:id that writes a status without asking validateTransition
PutSelected_Unvalidated(r) ==
    /\ Awaits(r, "SELECT", "select") /\ reqs[r].kind = "putTask"
    /\ UNCHANGED <<tasks, activity_log, comments, txn>>
    /\ LET task == tasks[reqs[r].id]
       IN  IF task = NoRow
           THEN Respond(r, task, 404, NoRes, <<>>)
           ELSE ContinueWith(r, task, "update", <<Query(r, "UPDATE")>>)

PutSelected(r) ==
    /\ Awaits(r, "SELECT", "select") /\ reqs[r].kind = "putTask"
    /\ UNCHANGED <<tasks, activity_log, comments, txn>>
    /\ LET q == reqs[r]
           task == tasks[q.id]
           role == ToLowerCase(Or(q.agentInfo.agentRole, ""))
           validation == validateTransition(task, q.status, q.agentInfo)
           statusChange == q.status # Undefined /\ q.status # task.status
       IN  IF task = NoRow
           THEN Respond(r, task, 404, NoRes, <<>>)
           ELSE IF /\ q.owner_agent # Undefined
                   /\ q.owner_agent # task.owner_agent
                   /\ isUnassigned(task)
                   /\ role # ROLES.FOUNDER /\ role # ROLES.AGENT
           THEN Respond(r, task, 403,
                        [NoRes EXCEPT !.reason =
                            "Only Founder or Agents can assign unassigned tasks"],
                        <<>>)
           ELSE IF statusChange /\ ~validation.allowed
           THEN Respond(r, task, 403,
                        [NoRes EXCEPT !.reason = validation.reason,
                                      !.from_status = task.status,
                                      !.to_status = q.status],
                        <<logTransitionAttempt(q.id, task.status, q.status,
                                               q.agentInfo, "false",
                                               validation.reason)>>)
           ELSE ContinueWith(r, task, "update",
                    (IF statusChange
                     THEN <<logTransitionAttempt(q.id, task.status, q.status,
                                                 q.agentInfo, "true", Null)>>
                     ELSE <<>>) \o <<Query(r, "UPDATE")>>)

\* the UPDATE writes the values the handler read, patched by the body
PutUpdated(r) ==
    /\ Awaits(r, "UPDATE", "update") /\ reqs[r].kind = "putTask"
    /\ LET q == reqs[r]
       IN  /\ UpdateRow(q.id,
                 [title |-> q.task.title,
                  status |-> Or(q.status, q.task.status),
                  owner_agent |-> Or(q.owner_agent, Or(q.task.owner_agent, "")),
                  assignee |-> Or(q.task.assignee, ""),
                  updated_at |-> now])
           /\ Respond(r, q.task, 200,
                 [NoRes EXCEPT !.owner_agent = Or(q.owner_agent, q.task.owner_agent),
                               !.to_status = Or(q.status, q.task.status)],
                 <<logActivity("update", q.id, q.agentInfo,
                       [fromStatus |-> q.task.status,
                        toStatus |-> Or(q.status, q.task.status),
                        allowed |-> "true", denialReason |-> Undefined])>>)

\* ------------------------------------- DELETE /api/tasks/:id
ReceiveDeleteTask(h, id) ==
    IF ~authMiddleware(h)
    THEN Receive(Reject("deleteTask", 401), <<>>) /\ UNCHANGED nextId
    ELSE /\ Receive([NoReq EXCEPT !.kind = "deleteTask", !.id = id,
                                  !.agentInfo = getAgentIdentity(h),
                                  !.pc = "select"],
                    <<Query(nreq + 1, "SELECT")>>)
         /\ UNCHANGED nextId

DeleteSelected(r) ==
    /\ Awaits(r, "SELECT", "select") /\ reqs[r].kind = "deleteTask"
    /\ UNCHANGED <<tasks, activity_log, comments, txn>>
    /\ LET task == tasks[reqs[r].id]
       IN  IF task = NoRow
           THEN Respond(r, task, 404, NoRes, <<>>)
           ELSE ContinueWith(r, task, "delete", <<Query(r, "DELETE")>>)

DeleteDeleted(r) ==
    /\ Awaits(r, "DELETE", "delete") /\ reqs[r].kind = "deleteTask"
    /\ DeleteRow(reqs[r].id)
    /\ Respond(r, reqs[r].task, 200, NoRes,
               <<logActivity("delete", reqs[r].id, reqs[r].agentInfo,
                             NoTransitionInfo)>>)

\* ------------------------------------- POST /api/cards/:id/comment
ReceiveComment(h, id, content) ==
    IF ~agentAuthMiddleware(h)
    THEN Receive(Reject("comment", 401), <<>>) /\ UNCHANGED nextId
    ELSE IF Falsy(content)
    THEN Receive(Reject("comment", 400), <<>>) /\ UNCHANGED nextId
    ELSE /\ Receive([NoReq EXCEPT !.kind = "comment", !.id = id,
                                  !.body = [NoBody EXCEPT !.content = content],
                                  !.agentInfo = getAgentIdentity(h),
                                  !.pc = "select"],
                    <<Query(nreq + 1, "SELECT")>>)
         /\ UNCHANGED nextId

CommentSelected(r) ==
    /\ Awaits(r, "SELECT", "select") /\ reqs[r].kind = "comment"
    /\ UNCHANGED <<tasks, activity_log, comments, txn>>
    /\ LET task == tasks[reqs[r].id]
       IN  IF task = NoRow
           THEN Respond(r, task, 404, NoRes, <<>>)
           ELSE ContinueWith(r, task, "insert", <<Query(r, "INSERT")>>)

\* INSERT INTO comments, then log and respond
CommentInserted(r) ==
    /\ Awaits(r, "INSERT", "insert") /\ reqs[r].kind = "comment"
    /\ comments' = Append(comments,
                          [task_id |-> reqs[r].id,
                           content |-> reqs[r].body.content,
                           agent_id |-> reqs[r].agentInfo.agentId,
                           agent_role |-> reqs[r].agentInfo.agentRole,
                           created_at |-> now])
    /\ UNCHANGED <<tasks, txn, activity_log>>
    /\ Respond(r, reqs[r].task, 201, NoRes,
               <<logActivity("comment", reqs[r].id, reqs[r].agentInfo,
                             NoTransitionInfo)>>)

\* ------------------------------------------------------- specification
\* what a request body gives for status, and what the body of a create or
\* of a field update gives for status and owner_agent
BodyStatus == BodyStatuses \cup {Undefined}

\* what the body of a comment gives for content
Contents == {Undefined, "c"}

\* titles a create carries: the empty one and one that is not
Titles == {"", "t"}

Bodies ==
    {[status |-> st, owner_agent |-> Undefined] : st \in BodyStatus} \cup
    {[status |-> Undefined, owner_agent |-> oa] : oa \in {"", "alice"}}

\* a request arrives while fewer than MaxReqs have been received (the guard Receive
\* itself carries, stated first), or a queued statement of the connection completes
Next ==
    \/ nreq < MaxReqs /\ \E h \in Headers, id \in Ids : ReceiveClaim(h, id)
    \/ nreq < MaxReqs /\ \E h \in Headers, id \in Ids, st \in BodyStatus : ReceiveTransition(h, id, st)
    \/ nreq < MaxReqs /\ \E h \in Headers, t \in Titles, b \in Bodies :
          ReceiveCreateCard(h, t, b.status, b.owner_agent)
    \/ nreq < MaxReqs /\ \E h \in Headers, t \in Titles, b \in Bodies :
          ReceiveCreateTask(h, t, b.status, b.owner_agent)
    \/ nreq < MaxReqs /\ \E h \in Headers, id \in Ids, b \in Bodies :
          ReceivePutTask(h, id, b.status, b.owner_agent)
    \/ nreq < MaxReqs /\ \E h \in Headers, id \in Ids : ReceiveDeleteTask(h, id)
    \/ nreq < MaxReqs /\ \E h \in Headers, id \in Ids, c \in Contents : ReceiveComment(h, id, c)
    \/ \E r \in Rids : CommentSelected(r)
    \/ \E r \in Rids : CommentInserted(r)
    \/ \E r \in Rids : ClaimBegun(r)
    \/ \E r \in Rids : ClaimSelected(r)
    \/ \E r \in Rids : ClaimRolledBack(r)
    \/ \E r \in Rids : ClaimUpdated(r)
    \/ \E r \in Rids : ClaimCommitted(r)
    \/ \E r \in Rids : TransitionBegun(r)
    \/ \E r \in Rids : TransitionSelected(r)
    \/ \E r \in Rids : TransitionRolledBack(r)
    \/ \E r \in Rids : TransitionUpdated(r)
    \/ \E r \in Rids : TransitionCommitted(r)
    \/ \E r \in Rids : TaskInserted(r)
    \/ \E r \in Rids : PutSelected(r)
    \/ \E r \in Rids : PutUpdated(r)
    \/ \E r \in Rids : DeleteSelected(r)
    \/ \E r \in Rids : DeleteDeleted(r)
    \/ LogInserted

Spec == Init /\ [][Next]_vars


\* ------------------------------------------- the policy as pure functions
\* arguments of one policy call: any card, any requested status, any actor
PolicyOwners == {Null, "", "alice", "bob"}
PolicyAssignees == {"", "alice", "bob"}
PolicyAgentIds == {"alice", "bob", "owner"}
PolicyRoles == {"founder", "agent", "member"}

PolicyInit ==
    /\ probe \in [task : [title : {"t"}, status : Statuses,
                          owner_agent : PolicyOwners,
                          assignee : PolicyAssignees, updated_at : {0}],
                  newStatus : BodyStatuses,
                  agentInfo : [agentId : PolicyAgentIds, agentRole : PolicyRoles],
                  transition : {NoResult}, claim : {NoResult}]
    /\ tasks = [i \in Ids |-> NoRow]
    /\ activity_log = <<>>
    /\ comments = <<>>
    /\ txn = NoTxn
    /\ clock = 0
    /\ queue = <<>>
    /\ reqs = [r \in Rids |-> NoReq]
    /\ nreq = 0
    /\ nextId = 1
    /\ stored = tasks

Decide ==
    /\ probe.transition = NoResult
    /\ probe' = [probe EXCEPT
            !.transition = validateTransition(probe.task, probe.newStatus,
                                              probe.agentInfo),
            !.claim = validateClaimAction(probe.task, probe.agentInfo)]
    /\ UNCHANGED <<tasks, activity_log, comments, txn, clock, queue, reqs, nreq,
                   nextId, stored>>

PolicySpec == PolicyInit /\ [][Decide]_vars

\* ----------------------------------------------- the identity of a request
\* what a request can carry in x-owner-password, x-api-key, x-agent-id and
\* x-agent-role: nothing, the empty string, a right value or a wrong one
HeaderPasswords == {Undefined, "", OWNER_PASSWORD, "wrong-password"}
HeaderApiKeys == {Undefined, AGENT_API_KEY, "wrong-key"}
HeaderAgentIds == {Undefined, "", "alice"}
HeaderAgentRoles == {Undefined, "", "founder", "agent", "member"}

IdentityInit ==
    /\ probe \in [headers : [apiKey : HeaderApiKeys,
                             password : HeaderPasswords,
                             agentId : HeaderAgentIds,
                             agentRole : HeaderAgentRoles],
                  agentInfo : {NoInfo}]
    /\ tasks = [i \in Ids |-> NoRow]
    /\ activity_log = <<>>
    /\ comments = <<>>
    /\ txn = NoTxn
    /\ clock = 0
    /\ queue = <<>>
    /\ reqs = [r \in Rids |-> NoReq]
    /\ nreq = 0
    /\ nextId = 1
    /\ stored = tasks

\* a handler behind one of the two middlewares calls getAgentIdentity(req)
Identify ==
    /\ probe.agentInfo = NoInfo
    /\ agentAuthMiddleware(probe.headers) \/ authMiddleware(probe.headers)
    /\ probe' = [probe EXCEPT !.agentInfo = getAgentIdentity(probe.headers)]
    /\ UNCHANGED <<tasks, activity_log, comments, txn, clock, queue, reqs, nreq,
                   nextId, stored>>

IdentitySpec == IdentityInit /\ [][Identify]_vars

\* --------------------------------------------- agent-cli claim, then move
\* the environment of the command line client: AGENT_ID, AGENT_ROLE, the
\* password it sends with claim, and the card its two commands name
CliAgentIds == {"alice", "bob"}
CliAgentRoles == {"agent", "member"}
CliPasswords == {OWNER_PASSWORD, "wrong-password"}

\* apiRequest: the headers of every command, and those claim adds
CliHeaders(password) ==
    [apiKey |-> AGENT_API_KEY, password |-> password,
     agentId |-> probe.agentId, agentRole |-> probe.agentRole]

CliInit ==
    /\ probe \in [agentId : CliAgentIds, agentRole : CliAgentRoles,
                  password : CliPasswords, taskId : Ids]
    /\ tasks \in StoredTasks
    /\ activity_log = <<>>
    /\ comments = <<>>
    /\ txn = NoTxn
    /\ clock = 0
    /\ queue = <<>>
    /\ reqs = [r \in Rids |-> NoReq]
    /\ nreq = 0
    /\ nextId = IF tasks[1] = NoRow THEN 1 ELSE 2
    /\ stored = tasks

\* agent-cli claim <id>
CliClaim ==
    /\ nreq = 0
    /\ ReceiveTaskClaim(CliHeaders(probe.password), probe.taskId)

\* agent-cli move <id> Ongoing, the next line of the script: it runs once
\* claim has returned
CliMove ==
    /\ nreq = 1 /\ reqs[1].pc = "done"
    /\ ReceiveTransition(CliHeaders(Undefined), probe.taskId, "Ongoing")

CliNext ==
    \/ CliClaim
    \/ CliMove
    \/ \E r \in Rids : TaskClaimSelected(r)
    \/ \E r \in Rids : TaskClaimUpdated(r)
    \/ \E r \in Rids : TransitionBegun(r)
    \/ \E r \in Rids : TransitionSelected(r)
    \/ \E r \in Rids : TransitionRolledBack(r)
    \/ \E r \in Rids : TransitionUpdated(r)
    \/ \E r \in Rids : TransitionCommitted(r)
    \/ LogInserted

CliSpec == CliInit /\ [][CliNext]_vars

\* ------------------------------------------ the autonomous agent's loop
\* runs of the loop that are followed
MaxRuns == 2

\* "Maintain Backlog <= 10 cards"
BacklogTarget == 10

AGENT_ID == "auto-agent"

\* the agent sending the role member with every request
AgentHeaders_Member ==
    [apiKey |-> AGENT_API_KEY, password |-> Undefined,
     agentId |-> AGENT_ID, agentRole |-> "member"]

\* request(): the headers the agent sends with every request
AgentHeaders ==
    [apiKey |-> AGENT_API_KEY, password |-> Undefined,
     agentId |-> AGENT_ID, agentRole |-> "agent"]

\* request() passes url.pathname to http.request: the query string is dropped
RequestPath(path, query) == [path |-> path, query |-> Undefined]

\* GET /api/cards: the ids of every card, or of the cards in req.query.status
GetCards(query) ==
    {id \in DOMAIN tasks :
        /\ tasks[id] # NoRow
        /\ Falsy(query) \/ tasks[id].status = query}

\* getCardsByStatus(status)
getCardsByStatus(status) == GetCards(RequestPath("/api/cards", status).query)

\* getUnclaimedToDoCards(): the listed cards that have no owner
getUnclaimedToDoCards ==
    {id \in GetCards(RequestPath("/api/cards", "To Do").query) :
        Falsy(tasks[id].owner_agent)}

\* the loop at rest before its first run
NoAgent == [pc |-> "backlog", run |-> 1, needed |-> 0, todo |-> {},
            cardId |-> 0, card |-> NoRow, claim |-> 0, ongoing |-> 0]

AgentInit ==
    /\ probe = NoAgent
    /\ tasks \in StoredTasks
    /\ activity_log = <<>>
    /\ comments = <<>>
    /\ txn = NoTxn
    /\ clock = 0
    /\ queue = <<>>
    /\ reqs = [r \in Rids |-> NoReq]
    /\ nreq = 0
    /\ nextId = IF tasks[1] = NoRow THEN 1 ELSE 2
    /\ stored = tasks

\* a step of the loop that sends nothing
AgentThinks ==
    UNCHANGED <<tasks, activity_log, comments, txn, clock, queue, reqs, nreq,
                nextId, stored>>

\* the response of the request in flight has arrived
AgentAwaits(pc) == probe.pc = pc /\ nreq = 1 /\ reqs[1].pc = "done"

\* the agent goes on after the response
AgentResumes ==
    /\ nreq' = 0
    /\ reqs' = [reqs EXCEPT ![1] = NoReq]
    /\ UNCHANGED <<tasks, activity_log, comments, txn, clock, queue, nextId,
                   stored>>

\* Step 1: count the backlog
AgentCountsBacklog ==
    /\ probe.pc = "backlog" /\ nreq = 0
    /\ LET backlogCount == Cardinality(getCardsByStatus("Backlog"))
       IN  probe' = [probe EXCEPT
              !.pc = "generate",
              !.needed = IF backlogCount < BacklogTarget
                         THEN BacklogTarget - backlogCount ELSE 0]
    /\ AgentThinks

\* generateBacklogCard(), while the store has room
AgentGenerates ==
    /\ probe.pc = "generate" /\ nreq = 0 /\ probe.needed > 0
    /\ nextId <= MaxCards
    /\ ReceiveCreateCard(AgentHeaders, "t", "Backlog", Undefined)

AgentGenerated ==
    /\ AgentAwaits("generate")
    /\ probe' = [probe EXCEPT !.needed = probe.needed - 1]
    /\ AgentResumes

\* Step 2: list the unclaimed cards
AgentListsToDo ==
    /\ probe.pc = "generate" /\ nreq = 0
    /\ probe.needed = 0 \/ nextId > MaxCards
    /\ probe' = [probe EXCEPT !.pc = "next", !.needed = 0,
                              !.todo = getUnclaimedToDoCards]
    /\ AgentThinks

\* for (const card of unclaimedCards), and Step 3 when none is left
AgentPicks ==
    /\ probe.pc = "next" /\ nreq = 0
    /\ IF probe.todo = {}
       THEN probe' = [probe EXCEPT !.pc = "idle", !.cardId = 0, !.card = NoRow,
                                   !.claim = 0, !.ongoing = 0]
       ELSE LET id == CHOOSE i \in probe.todo : \A k \in probe.todo : i <= k
            IN  probe' = [probe EXCEPT !.pc = "claim", !.cardId = id,
                                       !.card = tasks[id],
                                       !.todo = probe.todo \ {id},
                                       !.claim = 0, !.ongoing = 0]
    /\ AgentThinks

\* Step 2a: claimCard(card.id)
AgentClaims ==
    /\ probe.pc = "claim" /\ nreq = 0
    /\ ReceiveClaim(AgentHeaders, probe.cardId)

AgentClaimed ==
    /\ AgentAwaits("claim")
    /\ probe' = [probe EXCEPT
          !.claim = reqs[1].code,
          !.pc = IF reqs[1].code = 200 THEN "ongoing" ELSE "next"]
    /\ AgentResumes

\* Step 2b: transitionCard(card.id, 'Ongoing')
AgentMovesToOngoing ==
    /\ probe.pc = "ongoing" /\ nreq = 0
    /\ ReceiveTransition(AgentHeaders, probe.cardId, "Ongoing")

AgentMovedToOngoing ==
    /\ AgentAwaits("ongoing")
    /\ probe' = [probe EXCEPT
          !.ongoing = reqs[1].code,
          !.pc = IF reqs[1].code = 200 THEN "comment" ELSE "next"]
    /\ AgentResumes

\* Step 2c: addComment(card.id, ...)
AgentComments ==
    /\ probe.pc = "comment" /\ nreq = 0
    /\ ReceiveComment(AgentHeaders, probe.cardId, "c")

AgentCommented ==
    /\ AgentAwaits("comment")
    /\ probe' = [probe EXCEPT !.pc = "review"]
    /\ AgentResumes

\* Step 2d: transitionCard(card.id, 'Review')
AgentMovesToReview ==
    /\ probe.pc = "review" /\ nreq = 0
    /\ ReceiveTransition(AgentHeaders, probe.cardId, "Review")

AgentMovedToReview ==
    /\ AgentAwaits("review")
    /\ probe' = [probe EXCEPT !.pc = "next"]
    /\ AgentResumes

\* setInterval(runAgentLoop, INTERVAL_MS)
AgentRunsAgain ==
    /\ probe.pc = "idle" /\ probe.run < MaxRuns
    /\ probe' = [probe EXCEPT !.pc = "backlog", !.run = probe.run + 1]
    /\ AgentThinks

AgentSteps ==
    \/ AgentCountsBacklog
    \/ AgentGenerates
    \/ AgentGenerated
    \/ AgentListsToDo
    \/ AgentPicks
    \/ AgentClaims
    \/ AgentClaimed
    \/ AgentMovesToOngoing
    \/ AgentMovedToOngoing
    \/ AgentComments
    \/ AgentCommented
    \/ AgentMovesToReview
    \/ AgentMovedToReview
    \/ AgentRunsAgain

\* the statements the agent's requests issue; alone, its claims are never denied
ServerSteps ==
    \/ \E r \in Rids : TaskInserted(r)
    \/ \E r \in Rids : ClaimBegun(r)
    \/ \E r \in Rids : ClaimSelected(r)
    \/ \E r \in Rids : ClaimUpdated(r)
    \/ \E r \in Rids : ClaimCommitted(r)
    \/ \E r \in Rids : TransitionBegun(r)
    \/ \E r \in Rids : TransitionSelected(r)
    \/ \E r \in Rids : TransitionRolledBack(r)
    \/ \E r \in Rids : TransitionUpdated(r)
    \/ \E r \in Rids : TransitionCommitted(r)
    \/ \E r \in Rids : CommentSelected(r)
    \/ \E r \in Rids : CommentInserted(r)
    \/ LogInserted

AgentNext == AgentSteps \/ ServerSteps

AgentSpec == AgentInit /\ [][AgentNext]_vars

\* the loop keeps running and the server keeps answering
AgentLiveSpec == AgentSpec /\ WF_vars(AgentSteps) /\ WF_vars(ServerSteps)

\* ------------------------- the patch of PUT /api/tasks/:id
\* fields of the card read and of the request body; description stands for
\* the fields patched as description is (priority, branch, repo)
PatchTasks ==
    [title : {"t"}, description : {Null, "text"},
     assignee : {"", "bob"}, due_date : {Null, "2026-01-01"}]
PatchBodies ==
    [title : {Undefined, "u"}, description : {Undefined, "", Null, "more"},
     assignee : {Undefined, "", Null, "carol"},
     due_date : {Undefined, "", Null, "2026-02-02"}]

NoPatch ==
    [title |-> Undefined, description |-> Undefined, assignee |-> Undefined,
     due_date |-> Undefined]

\* the values the UPDATE binds
PutParams(task, body) ==
    [title |-> Or(body.title, task.title),
     description |-> Or(body.description, task.description),
     assignee |-> Or(body.assignee, Or(task.assignee, "")),
     due_date |-> Or(body.due_date, task.due_date)]

\* the body of the 200 response
PutResponse(task, body) ==
    [title |-> Or(body.title, task.title),
     description |-> Or(body.description, task.description),
     assignee |-> Or(body.assignee, task.assignee),
     due_date |-> Or(body.due_date, task.due_date)]

PatchInit ==
    /\ probe \in [task : PatchTasks, body : PatchBodies,
                  row : {NoPatch}, res : {NoPatch}]
    /\ tasks = [i \in Ids |-> NoRow]
    /\ activity_log = <<>>
    /\ comments = <<>>
    /\ txn = NoTxn
    /\ clock = 0
    /\ queue = <<>>
    /\ reqs = [r \in Rids |-> NoReq]
    /\ nreq = 0
    /\ nextId = 1
    /\ stored = tasks

\* a PUT by the owner without status or owner_agent: UPDATE, then 200
PatchPut ==
    /\ probe.row = NoPatch
    /\ probe' = [probe EXCEPT !.row = PutParams(probe.task, probe.body),
                              !.res = PutResponse(probe.task, probe.body)]
    /\ UNCHANGED <<tasks, activity_log, comments, txn, clock, queue, reqs, nreq,
                   nextId, stored>>

PatchSpec == PatchInit /\ [][PatchPut]_vars

\* ------------------------- PUT /api/tasks/:id of the SQLite-only server
\* owner_agent and assignee of the card read, and of the request body
SqliteOwners == {Null, "alice", "bob"}
SqliteAssignees == {Null, "", "carol"}
SqliteBodyOwners == {Undefined, "", "alice", "bob"}
SqliteBodyAssignees == {Undefined, "", "carol", "dave"}

\* the third and fourth column of the UPDATE's SET list
SqlitePutColumns == <<"assignee", "owner_agent">>

\* the third and fourth value of the UPDATE's parameter array
SqlitePutParams(task, body) ==
    << Or(body.owner_agent, Or(task.owner_agent, "")),
       Or(body.assignee, Or(task.assignee, "")) >>

\* the positional binding of the parameters to the columns
SqlitePutRow(task, body) ==
    [c \in {"assignee", "owner_agent"} |->
        LET i == CHOOSE k \in DOMAIN SqlitePutColumns : SqlitePutColumns[k] = c
        IN  SqlitePutParams(task, body)[i]]

NoSqliteRow == [assignee |-> Undefined, owner_agent |-> Undefined]

SqliteInit ==
    /\ probe \in [task : [owner_agent : SqliteOwners,
                          assignee : SqliteAssignees],
                  body : [owner_agent : SqliteBodyOwners,
                          assignee : SqliteBodyAssignees],
                  row : {NoSqliteRow}]
    /\ tasks = [i \in Ids |-> NoRow]
    /\ activity_log = <<>>
    /\ comments = <<>>
    /\ txn = NoTxn
    /\ clock = 0
    /\ queue = <<>>
    /\ reqs = [r \in Rids |-> NoReq]
    /\ nreq = 0
    /\ nextId = 1
    /\ stored = tasks

\* a PUT by the owner without status: the UPDATE runs on the card it read
SqlitePut ==
    /\ probe.row = NoSqliteRow
    /\ probe' = [probe EXCEPT !.row = SqlitePutRow(probe.task, probe.body)]
    /\ UNCHANGED <<tasks, activity_log, comments, txn, clock, queue, reqs, nreq,
                   nextId, stored>>

SqliteSpec == SqliteInit /\ [][SqlitePut]_vars






\* ------------------------------------------------- two cards in the store
\* card X, and a different card Y stored next to it
CardX == MaxCards
CardY == MaxCards + 1
BothCards == {CardX, CardY}

\* rows of the two stored cards: unassigned in Backlog, or owned by alice in
\* Ongoing
TwoCardRows ==
    { [title |-> "t", status |-> "Backlog", owner_agent |-> Null,
       assignee |-> "", updated_at |-> 0],
      [title |-> "t", status |-> "Ongoing", owner_agent |-> "alice",
       assignee |-> "", updated_at |-> 0] }

TwoCardInit ==
    /\ tasks \in [BothCards -> TwoCardRows]
    /\ activity_log = <<>>
    /\ comments = <<>>
    /\ txn = NoTxn
    /\ clock = 0
    /\ queue = <<>>
    /\ reqs = [r \in Rids |-> NoReq]
    /\ nreq = 0
    /\ nextId = CardY + 1
    /\ stored = tasks
    /\ probe = NoProbe

\* claims and transitions on either card, field updates, deletes and
\* comments on Y
TwoCardNext ==
    \/ nreq < MaxReqs /\ \E h \in Headers, id \in BothCards : ReceiveClaim(h, id)
    \/ nreq < MaxReqs /\ \E h \in Headers, id \in BothCards, st \in BodyStatus :
          ReceiveTransition(h, id, st)
    \/ nreq < MaxReqs /\ \E h \in Headers, b \in Bodies :
          ReceivePutTask(h, CardY, b.status, b.owner_agent)
    \/ nreq < MaxReqs /\ \E h \in Headers : ReceiveDeleteTask(h, CardY)
    \/ nreq < MaxReqs /\ \E h \in Headers, c \in Contents :
          ReceiveComment(h, CardY, c)
    \/ \E r \in Rids : CommentSelected(r)
    \/ \E r \in Rids : CommentInserted(r)
    \/ \E r \in Rids : ClaimBegun(r)
    \/ \E r \in Rids : ClaimSelected(r)
    \/ \E r \in Rids : ClaimRolledBack(r)
    \/ \E r \in Rids : ClaimUpdated(r)
    \/ \E r \in Rids : ClaimCommitted(r)
    \/ \E r \in Rids : TransitionBegun(r)
    \/ \E r \in Rids : TransitionSelected(r)
    \/ \E r \in Rids : TransitionRolledBack(r)
    \/ \E r \in Rids : TransitionUpdated(r)
    \/ \E r \in Rids : TransitionCommitted(r)
    \/ \E r \in Rids : PutSelected(r)
    \/ \E r \in Rids : PutUpdated(r)
    \/ \E r \in Rids : DeleteSelected(r)
    \/ \E r \in Rids : DeleteDeleted(r)
    \/ LogInserted

TwoCardSpec == TwoCardInit /\ [][TwoCardNext]_vars


\* ------------------------------------------------------------ properties
RoleOf(r) == ToLowerCase(Or(reqs[r].agentInfo.agentRole, ""))

\* request r has been answered by its handler after reading a card
Answered(r, kind) ==
    /\ reqs[r].kind = kind
    /\ reqs[r].pc = "done"
    /\ reqs[r].task # NoRow

\* request r asks for a change of status to `target`, by a transition or by
\* a field update that carries a status other than the one it read
AsksStatus(r, target) ==
    /\ reqs[r].status = target
    /\ \/ Answered(r, "transition")
       \/ Answered(r, "putTask") /\ reqs[r].status # reqs[r].task.status

Quiet == queue = <<>> /\ \A r \in Rids : reqs[r].pc \in {"idle", "done"}

\* C1: first-claim-wins. Two claims on one card by two distinct actors of
\* role agent or founder, at least one of which read the card as
\* unassigned, end in exactly one 200 and one 409, and the card's owner is
\* the agentId of the request answered 200.
C1_FirstClaimWins ==
    \A r1, r2 \in Rids :
        ( /\ r1 # r2
          /\ Answered(r1, "claim") /\ Answered(r2, "claim")
          /\ reqs[r1].id = reqs[r2].id
          /\ reqs[r1].agentInfo.agentId # reqs[r2].agentInfo.agentId
          /\ RoleOf(r1) \in {"agent", "founder"}
          /\ RoleOf(r2) \in {"agent", "founder"}
          /\ isUnassigned(reqs[r1].task)
          /\ reqs[r1].code = 200 )
        => /\ reqs[r2].code = 409
           /\ Quiet => tasks[reqs[r1].id].owner_agent = reqs[r1].agentInfo.agentId

\* C2: founder-only closure. A transition to Done on a card read as Review
\* or Ongoing is answered 403 for every actor of role agent or member, the
\* card's owner and assignee included, and 200 for a founder, whose UPDATE
\* makes the card's status Done.
C2_Decision ==
    \A r \in Rids :
        ( /\ Answered(r, "transition")
          /\ reqs[r].status = "Done"
          /\ reqs[r].task.status \in {"Review", "Ongoing"} )
        => /\ RoleOf(r) \in {"agent", "member"} => reqs[r].code = 403
           /\ RoleOf(r) = "founder" => reqs[r].code = 200

C2_Step ==
    \A r \in Rids :
        ( /\ TransitionUpdated(r)
          /\ reqs[r].status = "Done"
          /\ tasks[reqs[r].id] # NoRow )
        => /\ RoleOf(r) = "founder"
           /\ tasks'[reqs[r].id].status = "Done"

C2_FounderOnlyClosure == []C2_Decision /\ [][C2_Step]_vars

C2_Witness ==
    \E r1, r2 \in Rids :
        /\ Answered(r1, "transition") /\ Answered(r2, "transition")
        /\ reqs[r1].status = "Done" /\ reqs[r2].status = "Done"
        /\ reqs[r1].task.status = "Review" /\ reqs[r2].task.status = "Review"
        /\ RoleOf(r1) = "agent"
        /\ reqs[r1].task.owner_agent = reqs[r1].agentInfo.agentId
        /\ reqs[r1].code = 403
        /\ RoleOf(r2) = "founder" /\ reqs[r2].code = 200
        /\ tasks[reqs[r2].id].status = "Done"

\* C3: only the founder finalizes work. As long as no request of a founder
\* has been received, a card whose status is Done was stored as Done when
\* the server started.
NoFounderRequest ==
    \A r \in Rids : reqs[r].kind # "none" => RoleOf(r) # "founder"

C3_OnlyFounderFinalizes ==
    NoFounderRequest =>
        \A i \in Ids : tasks[i].status = "Done" => stored[i].status = "Done"


\* the rule table as the specification gives it: the legal sources of the
\* three targets that have a rule
RuledTargets == {"Ongoing", "Review", "Done"}

SourcesOf(target) ==
    CASE target = "Ongoing" -> {"To Do", "Backlog", "Agent Inbox"}
      [] target = "Review" -> {"Ongoing"}
      [] target = "Done" -> {"Review", "Ongoing"}

LegalSource(from, target) == target \in RuledTargets => from \in SourcesOf(target)

\* request r was handled as a transition or as a field update
Mutating(r) == Answered(r, "transition") \/ Answered(r, "putTask")

\* the status request r asks the card to take, if it asks for a change
ChangesStatus(r) ==
    \/ reqs[r].kind = "transition"
    \/ /\ reqs[r].kind = "putTask"
       /\ reqs[r].status # Undefined
       /\ reqs[r].status # reqs[r].task.status

C5_SourceLegality ==
    \A r \in Rids : \A target \in RuledTargets :
        (AsksStatus(r, target) /\ reqs[r].task.status \notin SourcesOf(target))
        => reqs[r].code = 403

C5_Witness ==
    \E r1, r2 \in Rids :
        /\ AsksStatus(r1, "Review") /\ reqs[r1].kind = "putTask"
        /\ reqs[r1].task.status = "Backlog" /\ reqs[r1].code = 403
        /\ AsksStatus(r2, "Done") /\ reqs[r2].kind = "transition"
        /\ RoleOf(r2) = "founder"
        /\ reqs[r2].task.status = "Backlog" /\ reqs[r2].code = 403

\* C6: ownership gate of the rule table. For a card with an owner, in a legal
\* source status, validateTransition allows a transition to Ongoing or to
\* Review if and only if the actor's agentId is the card's owner_agent or its
\* assignee, or the actor's role is founder.
C6_OwnershipGate ==
    ( /\ probe.transition # NoResult
      /\ ~Falsy(probe.task.owner_agent)
      /\ probe.newStatus \in {"Ongoing", "Review"}
      /\ probe.task.status \in SourcesOf(probe.newStatus) )
    => ( probe.transition.allowed <=>
            \/ probe.agentInfo.agentId = probe.task.owner_agent
            \/ probe.agentInfo.agentId = probe.task.assignee
            \/ probe.agentInfo.agentRole = "founder" )

C6_Witness ==
    /\ probe.transition # NoResult
    /\ probe.newStatus = "Review" /\ probe.task.status = "Ongoing"
    /\ probe.agentInfo.agentRole = "agent"
    /\ probe.task.owner_agent = "bob"
    /\ probe.agentInfo.agentId = probe.task.assignee
    /\ probe.transition.allowed

\* C7: targets without a rule are unrestricted. A transition to Backlog,
\* To Do or Agent Inbox on a card read with an owner is answered 200 from
\* every source status and for every actor, and its UPDATE makes the target
\* the card's status.
UnruledTargets == {"Backlog", "To Do", "Agent Inbox"}

C7_Decision ==
    \A r \in Rids :
        ( /\ Answered(r, "transition")
          /\ reqs[r].status \in UnruledTargets
          /\ ~isUnassigned(reqs[r].task) )
        => reqs[r].code = 200

C7_Step ==
    \A r \in Rids :
        ( /\ TransitionUpdated(r)
          /\ reqs[r].status \in UnruledTargets
          /\ tasks[reqs[r].id] # NoRow )
        => tasks'[reqs[r].id].status = reqs[r].status

C7_UnruledTargets == []C7_Decision /\ [][C7_Step]_vars

C7_Witness ==
    \E r \in Rids :
        /\ Answered(r, "transition")
        /\ reqs[r].status = "Agent Inbox" /\ reqs[r].task.status = "Review"
        /\ RoleOf(r) = "member"
        /\ reqs[r].task.owner_agent = "alice" /\ reqs[r].agentInfo.agentId = "bob"
        /\ reqs[r].code = 200
        /\ tasks[reqs[r].id].status = "Agent Inbox"

\* C8 as claimed: Done is terminal. A card whose status is Done keeps that
\* status in every step, unless the step deletes the card.
C8_DoneIsTerminal ==
    [][\A i \in Ids :
          tasks[i].status = "Done" =>
              tasks'[i] = NoRow \/ tasks'[i].status = "Done"]_vars

\* C8 as amended: Done has no exit to a target that has a rule, and is not
\* terminal otherwise. A request for a change of status that read the card as
\* Done is answered 403 when its target is Ongoing, Review or Done; a
\* transition to a target without a rule is answered 200, for every actor on
\* a card with an owner and for a founder on every card.
C8_DoneExits ==
    \A r \in Rids :
        (Mutating(r) /\ ChangesStatus(r) /\ reqs[r].task.status = "Done")
        => /\ reqs[r].status \in RuledTargets => reqs[r].code = 403
           /\ ( /\ reqs[r].status \notin RuledTargets
                /\ ~isUnassigned(reqs[r].task) \/ RoleOf(r) = "founder" )
              => reqs[r].code = 200

C8_Witness ==
    \E r1, r2 \in Rids :
        /\ Answered(r1, "transition") /\ Answered(r2, "transition")
        /\ reqs[r1].task.status = "Done" /\ reqs[r2].task.status = "Done"
        /\ RoleOf(r1) = "founder" /\ RoleOf(r2) = "founder"
        /\ reqs[r1].status = "Ongoing" /\ reqs[r1].code = 403
        /\ reqs[r2].status = "Backlog" /\ reqs[r2].code = 200
        /\ Quiet /\ tasks[reqs[r2].id].status = "Backlog"

\* C9: in every reachable state every card's status is one of Backlog, To Do,
\* Agent Inbox, Ongoing, Review, Done.
C9_StatusVocabulary ==
    \A i \in Ids : tasks[i] # NoRow => tasks[i].status \in Statuses

\* C10: a denied transition does not mutate. The step in which a transition
\* is answered 403 leaves the card's status, owner_agent and updated_at as
\* they were, and the response carries the reason, the status the handler
\* read as from_status and the requested status as to_status.
C10_DeniedDoesNotMutate ==
    [][\A r \in Rids :
          (TransitionRolledBack(r) /\ reqs[r].pc = "denied")
          => /\ reqs'[r].code = 403
             /\ tasks'[reqs[r].id] = tasks[reqs[r].id]
             /\ reqs'[r].res.reason # Undefined
             /\ reqs'[r].res.from_status = reqs[r].task.status
             /\ reqs'[r].res.to_status = reqs[r].status]_vars

\* the activity_log rows of one action, and the requests of one kind that
\* were answered with one code
RowsOf(action) ==
    {i \in DOMAIN activity_log : activity_log[i].action = action}

DeniedTransitionRows ==
    {i \in RowsOf("transition") : activity_log[i].denial_reason # Null}

AnsweredWith(kind, code) ==
    {r \in Rids : Answered(r, kind) /\ reqs[r].code = code}

\* requests whose change of status was denied by the policy: by the
\* transition endpoint, or by a field update that carried a status
DeniedTransitions ==
    AnsweredWith("transition", 403) \cup
    {r \in AnsweredWith("putTask", 403) : reqs[r].res.to_status # Undefined}

\* C11: audit completeness. Once every request is answered and every
\* statement has run, the activity_log holds exactly one row for every
\* denied transition, every denied claim and every successful claim; the
\* row of a successful claim has transition_allowed = 1 and no
\* denial_reason, the row of a denied claim or transition has
\* transition_allowed = 0 and a denial_reason.
C11_AuditCompleteness ==
    Quiet =>
        /\ Cardinality(RowsOf("claim")) = Cardinality(AnsweredWith("claim", 200))
        /\ Cardinality(RowsOf("claim_denied")) = Cardinality(AnsweredWith("claim", 409))
        /\ Cardinality(DeniedTransitionRows) = Cardinality(DeniedTransitions)
        /\ \A i \in RowsOf("claim") :
              /\ activity_log[i].transition_allowed = 1
              /\ activity_log[i].denial_reason = Null
        /\ \A i \in RowsOf("claim_denied") :
              /\ activity_log[i].transition_allowed = 0
              /\ activity_log[i].denial_reason # Null
        /\ \A i \in DeniedTransitionRows :
              activity_log[i].transition_allowed = 0

\* C12: idempotent no-op. A transition request for the status its handler
\* read is answered 200 for each of the six statuses and every actor, its
\* handler issues no statement that changes the card (updated_at included),
\* and no activity_log row records a transition from a status to itself.
C12_Decision ==
    /\ \A r \in Rids :
          ( /\ Answered(r, "transition")
            /\ reqs[r].task.status \in Statuses
            /\ reqs[r].status = reqs[r].task.status )
          => reqs[r].code = 200
    /\ \A i \in RowsOf("transition") :
          activity_log[i].from_status # activity_log[i].to_status

C12_Step ==
    \A r \in Rids :
        ( /\ TransitionUpdated(r) \/ PutUpdated(r)
          /\ reqs[r].status = reqs[r].task.status
          /\ reqs[r].owner_agent = Undefined )
        => tasks' = tasks

C12_IdempotentNoOp == []C12_Decision /\ [][C12_Step]_vars

\* C13: per-card serialization of transitions. While only transitions and
\* claims are in flight, the UPDATE of a transition finds the card with the
\* status and the owner its handler read: validateTransition allows the
\* transition for the card as it is immediately before the write, and the
\* from_status the handler reports and logs is that card's status.
OnlyTransitionsAndClaims ==
    \A r \in Rids : reqs[r].kind \in {"none", "transition", "claim"}

C13_PerCardSerialization ==
    [][\A r \in Rids :
          ( /\ TransitionUpdated(r)
            /\ OnlyTransitionsAndClaims
            /\ tasks[reqs[r].id] # NoRow )
          => /\ validateTransition(tasks[reqs[r].id], reqs[r].status,
                                   reqs[r].agentInfo).allowed
             /\ reqs[r].task.status = tasks[reqs[r].id].status
             /\ reqs[r].task.owner_agent = tasks[reqs[r].id].owner_agent]_vars

\* two owner_agent values name the same owner (NULL and '' both name none)
SameOwner(a, b) == a = b \/ (Falsy(a) /\ Falsy(b))

\* C14: field updates do not lose other writers' changes. The UPDATE of a
\* PUT /api/tasks/:id whose body carries no status and no owner_agent leaves
\* the card's status and owner as they are when it runs, so a status or an
\* owner that a transition or a claim wrote after the PUT read the card
\* stays.
C14_NoLostUpdate ==
    [][\A r \in Rids :
          ( /\ PutUpdated(r)
            /\ reqs[r].status = Undefined
            /\ reqs[r].owner_agent = Undefined
            /\ tasks[reqs[r].id] # NoRow )
          => /\ tasks'[reqs[r].id].status = tasks[reqs[r].id].status
             /\ SameOwner(tasks'[reqs[r].id].owner_agent,
                          tasks[reqs[r].id].owner_agent)]_vars

\* request r changed no card: it was never received, or it is a claim or a
\* transition that was answered with an error
WroteNothing(r) ==
    \/ reqs[r].kind = "none"
    \/ /\ reqs[r].kind \in {"claim", "transition"}
       /\ reqs[r].pc = "done"
       /\ reqs[r].code \in {400, 401, 403, 404, 409}

\* C15: claim and transition are all-or-nothing at the store boundary. The
\* write of a claim or transition answered 200 is in the store once all
\* requests are answered, whatever BEGIN, COMMIT or ROLLBACK the requests
\* that wrote nothing issued on the connection meanwhile; and the step in
\* which a claim or transition is answered 403, 404 or 409 changes no card.
C15_Committed ==
    \A r \in Rids :
        ( /\ Quiet
          /\ reqs[r].code = 200
          /\ \A r2 \in Rids \ {r} : WroteNothing(r2) )
        => /\ Answered(r, "transition") =>
                tasks[reqs[r].id].status = reqs[r].status
           /\ Answered(r, "claim") =>
                tasks[reqs[r].id].owner_agent = reqs[r].agentInfo.agentId

C15_Step ==
    \A r \in Rids :
        (ClaimRolledBack(r) \/ TransitionRolledBack(r)) => tasks' = tasks

C15_AllOrNothing == []C15_Committed /\ [][C15_Step]_vars

\* what a claim or a transition that runs alone answers, and the status and
\* owner it leaves the card with
AloneClaim(card, agentInfo) ==
    IF validateClaimAction(card, agentInfo).allowed
    THEN [code |-> 200, status |-> card.status, owner_agent |-> agentInfo.agentId]
    ELSE [code |-> 409, status |-> card.status, owner_agent |-> card.owner_agent]

AloneTransition(card, newStatus, agentInfo) ==
    IF validateTransition(card, newStatus, agentInfo).allowed
    THEN [code |-> 200, status |-> newStatus, owner_agent |-> card.owner_agent]
    ELSE [code |-> 403, status |-> card.status, owner_agent |-> card.owner_agent]

Alone(r) ==
    IF reqs[r].kind = "claim"
    THEN AloneClaim(stored[reqs[r].id], reqs[r].agentInfo)
    ELSE AloneTransition(stored[reqs[r].id], reqs[r].status, reqs[r].agentInfo)

\* C16: operations on different card ids are independent. With two cards
\* stored, a claim or a transition on card X that is the only request on X,
\* interleaved in any way with any request on card Y, is answered as when it
\* runs alone and leaves X with the status and the owner it has when the
\* request runs alone.
C16_Independence ==
    \A r \in Rids :
        ( /\ Quiet
          /\ reqs[r].kind \in {"claim", "transition"}
          /\ reqs[r].id = CardX
          /\ \A r2 \in Rids \ {r} : reqs[r2].id # CardX )
        => /\ reqs[r].code = Alone(r).code
           /\ tasks[CardX].status = Alone(r).status
           /\ SameOwner(tasks[CardX].owner_agent, Alone(r).owner_agent)

\* C17: claim eligibility. A claim whose handler read the card as unassigned
\* is answered 200 for an actor of role founder or agent, and its UPDATE
\* makes that actor's agentId the card's owner_agent; for any other role
\* (member, or none given) it is answered 409, and the step that answers it
\* leaves a card that has no owner without an owner.
C17_Decision ==
    \A r \in Rids :
        (Answered(r, "claim") /\ isUnassigned(reqs[r].task))
        => IF RoleOf(r) \in {"founder", "agent"}
           THEN /\ reqs[r].code = 200
                /\ reqs[r].res.owner_agent = reqs[r].agentInfo.agentId
           ELSE reqs[r].code = 409

C17_Step ==
    \A r \in Rids :
        /\ (ClaimUpdated(r) /\ tasks[reqs[r].id] # NoRow)
           => /\ RoleOf(r) \in {"founder", "agent"}
              /\ tasks'[reqs[r].id].owner_agent = reqs[r].agentInfo.agentId
        /\ ( /\ ClaimRolledBack(r)
             /\ reqs[r].pc = "denied"
             /\ isUnassigned(reqs[r].task)
             /\ isUnassigned(tasks[reqs[r].id]) )
           => /\ RoleOf(r) \notin {"founder", "agent"}
              /\ isUnassigned(tasks'[reqs[r].id])

C17_ClaimEligibility == []C17_Decision /\ [][C17_Step]_vars

C17_Witness ==
    \E r1, r2 \in Rids :
        /\ Answered(r1, "claim") /\ Answered(r2, "claim")
        /\ isUnassigned(reqs[r1].task) /\ isUnassigned(reqs[r2].task)
        /\ RoleOf(r1) = "member" /\ reqs[r1].code = 409
        /\ RoleOf(r2) = "agent" /\ reqs[r2].code = 200
        /\ Quiet
        /\ tasks[reqs[r2].id].owner_agent = reqs[r2].agentInfo.agentId

\* C18: claim conflict. A claim whose handler read the card with an owner is
\* answered 409 for every actor, that owner included, with current_owner the
\* owner it read, and the step that answers it leaves the card's
\* owner_agent, status and updated_at as they were; so once every request is
\* answered, a card that only claims were made on has the owner it was
\* stored with or, if it was stored unassigned, an owner.
OnlyClaims == \A r \in Rids : reqs[r].kind \in {"none", "claim"}

C18_Decision ==
    /\ \A r \in Rids :
          (Answered(r, "claim") /\ ~isUnassigned(reqs[r].task))
          => /\ reqs[r].code = 409
             /\ reqs[r].res.owner_agent = reqs[r].task.owner_agent
    /\ \A i \in Ids :
          ( /\ Quiet /\ OnlyClaims /\ stored[i] # NoRow
            /\ \E r \in Rids : reqs[r].id = i /\ reqs[r].code = 200 )
          => IF isUnassigned(stored[i])
             THEN ~isUnassigned(tasks[i])
             ELSE tasks[i].owner_agent = stored[i].owner_agent

C18_Step ==
    \A r \in Rids :
        ( /\ ClaimRolledBack(r)
          /\ reqs[r].pc = "denied"
          /\ ~isUnassigned(reqs[r].task) )
        => tasks'[reqs[r].id] = tasks[reqs[r].id]

C18_ClaimConflict == []C18_Decision /\ [][C18_Step]_vars

\* C19: frame of the two core mutations. The UPDATE of a claim changes only
\* the owner_agent and updated_at of the card it names, the UPDATE of a
\* transition only the status and updated_at of the card it names; no other
\* step of the two handlers that leads to a 200 changes any card, and none
\* changes another card.
C19_Frame ==
    [][\A r \in Rids :
          /\ ClaimUpdated(r) =>
                \A i \in DOMAIN tasks :
                    IF i = reqs[r].id
                    THEN /\ tasks'[i].status = tasks[i].status
                         /\ tasks'[i].assignee = tasks[i].assignee
                    ELSE tasks'[i] = tasks[i]
          /\ TransitionUpdated(r) =>
                \A i \in DOMAIN tasks :
                    IF i = reqs[r].id
                    THEN /\ tasks'[i].owner_agent = tasks[i].owner_agent
                         /\ tasks'[i].assignee = tasks[i].assignee
                    ELSE tasks'[i] = tasks[i]
          /\ ( \/ ClaimBegun(r) \/ ClaimSelected(r) \/ ClaimCommitted(r)
               \/ TransitionBegun(r) \/ TransitionSelected(r)
               \/ TransitionCommitted(r) )
             => tasks' = tasks]_vars

C19_Witness ==
    \E r1, r2 \in Rids :
        /\ Quiet
        /\ Answered(r1, "claim") /\ reqs[r1].id = CardX /\ reqs[r1].code = 200
        /\ Answered(r2, "transition") /\ reqs[r2].id = CardY /\ reqs[r2].code = 200
        /\ tasks[CardX].owner_agent = reqs[r1].agentInfo.agentId
        /\ tasks[CardX].owner_agent # stored[CardX].owner_agent
        /\ tasks[CardX].status = stored[CardX].status
        /\ tasks[CardY].status = reqs[r2].status
        /\ tasks[CardY].status # stored[CardY].status
        /\ tasks[CardY].owner_agent = stored[CardY].owner_agent

\* the create requests that have been answered
Created == {r \in Rids : reqs[r].kind \in {"createCard", "createTask"}
                         /\ reqs[r].pc = "done" /\ reqs[r].code \in {200, 201}}

\* C20: creation defaults. The INSERT of a create gives the card the status
\* of the body or, when the body has none, Agent Inbox on POST /api/cards
\* and Backlog on POST /api/tasks; on both endpoints it gives the card the
\* owner_agent of the body or, when the body has none, the creating actor's
\* agentId; and once every statement has run the activity_log holds exactly
\* one 'create' row per answered create.
C20_Rows ==
    Quiet => Cardinality(RowsOf("create")) = Cardinality(Created)

C20_Step ==
    \A r \in Rids :
        TaskInserted(r) =>
            /\ tasks'[reqs[r].id].status =
                  IF ~Falsy(reqs[r].body.status) THEN reqs[r].body.status
                  ELSE IF reqs[r].kind = "createCard" THEN "Agent Inbox"
                  ELSE "Backlog"
            /\ tasks'[reqs[r].id].owner_agent =
                  IF ~Falsy(reqs[r].body.owner_agent)
                  THEN reqs[r].body.owner_agent
                  ELSE reqs[r].agentInfo.agentId

C20_CreationDefaults == []C20_Rows /\ [][C20_Step]_vars

\* ---------------------------------------------------------------------
\* Errors, deletion and the audit log

\* the create requests that carry an empty title
EmptyTitled ==
    {r \in Rids : /\ reqs[r].kind \in {"createCard", "createTask"}
                  /\ reqs[r].agentInfo # NoInfo
                  /\ Falsy(reqs[r].body.title)}

\* C21: a create with an empty title is answered 400 before any statement
\* is issued, and every stored card has a non-empty title.
C21_TitleRequired ==
    /\ \A r \in EmptyTitled : reqs[r].pc = "done" /\ reqs[r].code = 400
    /\ \A id \in DOMAIN tasks : tasks[id] # NoRow => ~Falsy(tasks[id].title)

\* the credential the agent scheme asks for is missing or wrong
BadApiKey(h) == h.apiKey # AGENT_API_KEY

\* the credential the owner scheme asks for is missing or wrong
BadPassword(h) == h.password # OWNER_PASSWORD

\* the request that arrives in this step is answered `code` at once: no card
\* is read, no statement is issued, and the store is as it was
RejectedWith(code) ==
    /\ reqs'[nreq + 1].pc = "done"
    /\ reqs'[nreq + 1].code = code
    /\ reqs'[nreq + 1].task = NoRow
    /\ UNCHANGED <<tasks, activity_log, comments, txn, queue, clock>>

\* the request that arrives in this step, if one does, is of kind `kind`
Arrives(kind) == nreq' = nreq + 1 /\ reqs'[nreq + 1].kind = kind

C22_Step ==
    /\ Arrives("claim") =>
          \A h \in Headers, id \in Ids :
              BadApiKey(h) /\ ReceiveClaim(h, id) => RejectedWith(401)
    /\ Arrives("transition") =>
          \A h \in Headers, id \in Ids, st \in BodyStatus :
              /\ BadApiKey(h) /\ ReceiveTransition(h, id, st)
                    => RejectedWith(401)
              /\ ~BadApiKey(h) /\ Falsy(st) /\ ReceiveTransition(h, id, st)
                    => RejectedWith(400)
    /\ Arrives("comment") =>
          \A h \in Headers, id \in Ids, c \in Contents :
              /\ BadApiKey(h) /\ ReceiveComment(h, id, c)
                    => RejectedWith(401)
              /\ ~BadApiKey(h) /\ Falsy(c) /\ ReceiveComment(h, id, c)
                    => RejectedWith(400)
    /\ Arrives("createCard") =>
          \A h \in Headers, t \in Titles, b \in Bodies :
              BadApiKey(h) /\ ReceiveCreateCard(h, t, b.status, b.owner_agent)
                  => RejectedWith(401)
    /\ Arrives("createTask") =>
          \A h \in Headers, t \in Titles, b \in Bodies :
              BadPassword(h) /\ ReceiveCreateTask(h, t, b.status, b.owner_agent)
                  => RejectedWith(401)
    /\ Arrives("putTask") =>
          \A h \in Headers, id \in Ids, b \in Bodies :
              BadPassword(h) /\ ReceivePutTask(h, id, b.status, b.owner_agent)
                  => RejectedWith(401)
    /\ Arrives("deleteTask") =>
          \A h \in Headers, id \in Ids :
              BadPassword(h) /\ ReceiveDeleteTask(h, id) => RejectedWith(401)

C22_Never ==
    \A r \in Rids :
        reqs[r].code \in {400, 401} =>
            /\ reqs[r].pc = "done"
            /\ reqs[r].task = NoRow
            /\ \A i \in DOMAIN queue : queue[i].rid # r

\* C22: a request whose credential is missing or wrong is answered 401, a
\* transition without status and a comment without content are answered 400;
\* in each case the handler reads no card, issues no statement, and leaves
\* the cards, the activity_log and the comments as they were.
C22_FailuresNeverReachTheStore == []C22_Never /\ [][C22_Step]_vars

C22_Witness ==
    \E r1, r2 \in Rids :
        /\ reqs[r1].kind = "comment" /\ reqs[r1].code = 400
        /\ reqs[r2].kind = "transition" /\ reqs[r2].code = 401
        /\ activity_log = <<>> /\ comments = <<>>

\* no table changes in this step, and no row for the activity_log is queued
NothingChangedOrLogged ==
    /\ UNCHANGED <<tasks, activity_log, comments>>
    /\ \A i \in DOMAIN queue' :
          i >= Len(queue) => queue'[i].sql # "INSERT activity_log"

\* the SELECT of request r finds no card: the handler answers 404, after the
\* ROLLBACK it issues first when it is a claim or a transition
C23_Select ==
    \A r \in Rids :
        (\/ ClaimSelected(r) \/ TransitionSelected(r) \/ PutSelected(r)
         \/ CommentSelected(r) \/ DeleteSelected(r))
          /\ tasks[reqs[r].id] = NoRow
          => /\ NothingChangedOrLogged
             /\ \/ reqs'[r].pc = "done" /\ reqs'[r].code = 404
                \/ reqs'[r].pc = "notfound" /\ queue'[Len(queue')].rid = r

C23_Rollback ==
    \A r \in Rids :
        (ClaimRolledBack(r) \/ TransitionRolledBack(r))
          /\ reqs[r].pc = "notfound"
          => /\ NothingChangedOrLogged
             /\ reqs'[r].pc = "done" /\ reqs'[r].code = 404

\* the UPDATE of a claim, transition or field update, after which the handler
\* answers 200 and logs, is applied to a card that exists
C23_Write ==
    \A r \in Rids :
        ClaimUpdated(r) \/ TransitionUpdated(r) \/ PutUpdated(r)
          => tasks[reqs[r].id] # NoRow

\* C23: a claim, transition, field update, comment or delete that reads no
\* card under its id is answered 404, changes no table and logs nothing; and
\* a claim, transition or field update is never answered 200, nor logged as
\* allowed, for a card that no longer exists when its write is applied.
C23_NotFound == [][C23_Select /\ C23_Rollback /\ C23_Write]_vars

\* the 'delete' rows of the activity_log, written or still queued
DeleteRows ==
    Cardinality(RowsOf("delete")) +
    Cardinality({i \in DOMAIN queue : /\ queue[i].sql = "INSERT activity_log"
                                      /\ queue[i].row.action = "delete"})

C24_Step ==
    \A r \in Rids :
        /\ DeleteSelected(r) /\ tasks[reqs[r].id] # NoRow
              => reqs'[r].pc = "delete"
        /\ DeleteDeleted(r) =>
              /\ tasks'[reqs[r].id] = NoRow
              /\ \A id \in DOMAIN tasks : id # reqs[r].id => tasks'[id] = tasks[id]
              /\ activity_log' = activity_log
              /\ comments' = comments
              /\ reqs'[r].code = 200
              /\ DeleteRows' = DeleteRows + 1
              /\ queue'[Len(queue')].row.task_id = reqs[r].id

\* C24: the DELETE of DELETE /api/tasks/:id removes the row of the card it
\* names and nothing else: every other card, every activity_log row and every
\* comment is as before, the handler queues exactly one 'delete' row for the
\* card, and the handler deletes every card its SELECT found, whoever owns it.
C24_DeletionFrame ==
    /\ [](DeleteRows <= Cardinality(AnsweredWith("deleteTask", 200)))
    /\ [][C24_Step]_vars

\* Y has been deleted after it was commented on: the comment and its activity
\* row are there, and X is as stored
C24_Witness ==
    /\ tasks[CardY] = NoRow /\ stored[CardY].owner_agent = "alice"
    /\ tasks[CardX] = stored[CardX]
    /\ \E i \in DOMAIN comments : comments[i].task_id = CardY
    /\ \E i \in RowsOf("comment"), j \in RowsOf("delete") :
          /\ i < j
          /\ activity_log[i].task_id = CardY
          /\ activity_log[j].task_id = CardY

\* C25: the activity log is append-only. Every step leaves the rows the log
\* holds in place and unchanged, and at most adds rows after them.
C25_Step ==
    /\ Len(activity_log') >= Len(activity_log)
    /\ SubSeq(activity_log', 1, Len(activity_log)) = activity_log

C25_AppendOnly == [][C25_Step]_vars

\* the rows of the activity_log that record an allowed change of status
AllowedTransitionRows ==
    {i \in RowsOf("transition") : activity_log[i].transition_allowed = 1}

\* request r has applied the change of status that `row` records
AppliedChange(r, row) ==
    /\ reqs[r].kind \in {"transition", "putTask"}
    /\ reqs[r].id = row.task_id
    /\ reqs[r].task.status = row.from_status
    /\ reqs[r].status = row.to_status
    /\ reqs[r].pc = "done" /\ reqs[r].code = 200

\* C26: log-after-commit. A row of the activity_log that records an allowed
\* change of status from A to B is there only once the request that asked
\* for the change, by POST /api/cards/:id/transition or by PUT
\* /api/tasks/:id, has had its UPDATE applied and has been answered 200.
C26_LogAfterCommit ==
    \A i \in AllowedTransitionRows :
        \E r \in Rids : AppliedChange(r, activity_log[i])

\* the number of activity rows the handler queues in this step
NewLogs ==
    Cardinality({i \in DOMAIN queue' : /\ i >= Len(queue)
                                       /\ queue'[i].sql = "INSERT activity_log"})

\* C27: one audit record per mutating operation. A create, field update,
\* delete, claim or transition that is answered 200 or 201 queues exactly one
\* activity row: one in the step that answers, none in the steps before it.
C27_Step ==
    \A r \in Rids :
        /\ (\/ TaskInserted(r) \/ PutUpdated(r) \/ DeleteDeleted(r)
            \/ ClaimCommitted(r) \/ TransitionCommitted(r))
              => reqs'[r].code \in {200, 201} /\ NewLogs = 1
        /\ (\/ ClaimBegun(r) \/ ClaimUpdated(r)
            \/ TransitionBegun(r) \/ TransitionUpdated(r))
              => NewLogs = 0
        /\ (\/ ClaimSelected(r) \/ TransitionSelected(r)
            \/ PutSelected(r) \/ DeleteSelected(r))
              /\ reqs'[r].pc # "done" /\ queue'[Len(queue')].sql # "ROLLBACK"
              => NewLogs = 0

C27_OneRowPerOperation == [][C27_Step]_vars

\* request r is a field update whose SELECT is next and whose body carries a
\* status other than the one the card has
PutChangesStatus(r) ==
    /\ reqs[r].kind = "putTask"
    /\ tasks[reqs[r].id] # NoRow
    /\ reqs[r].status # Undefined
    /\ reqs[r].status # tasks[reqs[r].id].status

C28_Step ==
    \A r \in Rids :
        PutSelected(r) /\ PutChangesStatus(r) =>
            LET task == tasks[reqs[r].id]
                validation == validateTransition(task, reqs[r].status,
                                                 reqs[r].agentInfo)
            IN  /\ UNCHANGED <<tasks, activity_log, comments>>
                /\ IF validation.allowed
                   THEN reqs'[r].pc = "update"
                   ELSE /\ reqs'[r].pc = "done" /\ reqs'[r].code = 403
                        /\ reqs'[r].res.reason = validation.reason
                        /\ reqs'[r].res.from_status = task.status
                        /\ reqs'[r].res.to_status = reqs[r].status
                        /\ \A i \in DOMAIN queue' : queue'[i].rid # r

\* a transition and a field update that read the same card and ask the same
\* change of status for the same actor get the same answer
C28_SameDecision ==
    \A r1, r2 \in Rids :
        /\ Answered(r1, "transition") /\ Answered(r2, "putTask")
        /\ reqs[r1].task = reqs[r2].task
        /\ reqs[r1].status = reqs[r2].status
        /\ reqs[r1].status # reqs[r1].task.status
        /\ reqs[r1].agentInfo = reqs[r2].agentInfo
        => /\ reqs[r1].code = reqs[r2].code
           /\ reqs[r1].res.reason = reqs[r2].res.reason

\* C28: a field update that carries a status other than the card's runs the
\* validateTransition decision of POST /api/cards/:id/transition before it
\* writes; when the decision is deny it is answered 403 with reason,
\* from_status and to_status, issues no UPDATE and changes no field.
C28_PutValidatesTransition == []C28_SameDecision /\ [][C28_Step]_vars

\* a field update from Backlog to Review has been answered 403 and a
\* transition that asked the same has been answered 403 too
C28_Witness ==
    \E r1, r2 \in Rids :
        /\ Answered(r1, "transition") /\ Answered(r2, "putTask")
        /\ reqs[r1].agentInfo = reqs[r2].agentInfo
        /\ reqs[r1].status = "Review" /\ reqs[r1].code = 403
        /\ reqs[r2].code = 403
        /\ reqs[r2].res.from_status = "Backlog"
        /\ reqs[r2].res.to_status = "Review"
        /\ tasks = stored

\* the caller holds a credential of one of the two schemes and acts with a
\* role that is neither founder nor agent
AuthenticatedMember(h) ==
    /\ ~BadApiKey(h) \/ ~BadPassword(h)
    /\ ToLowerCase(Or(getAgentIdentity(h).agentRole, ""))
          \notin {ROLES.FOUNDER, ROLES.AGENT}

\* C29: assignment gate on field update. A PUT /api/tasks/:id by an
\* authenticated actor whose role is neither founder nor agent reaches the
\* handler, and when it sets owner_agent on a card read as unassigned the
\* handler answers 403, issues no UPDATE and changes no table.
C29_Step ==
    /\ Arrives("putTask") =>
          \A h \in Headers, id \in Ids, b \in Bodies :
              AuthenticatedMember(h) /\ ~Falsy(b.owner_agent)
                /\ ReceivePutTask(h, id, b.status, b.owner_agent)
                => reqs'[nreq + 1].pc = "select"
    /\ \A r \in Rids :
          PutSelected(r)
            /\ RoleOf(r) \notin {ROLES.FOUNDER, ROLES.AGENT}
            /\ tasks[reqs[r].id] # NoRow /\ isUnassigned(tasks[reqs[r].id])
            /\ ~Falsy(reqs[r].owner_agent)
            => /\ reqs'[r].pc = "done" /\ reqs'[r].code = 403
               /\ UNCHANGED <<tasks, activity_log, comments>>
               /\ \A i \in DOMAIN queue' : queue'[i].rid # r

C29_AssignmentGate == [][C29_Step]_vars

\* C30: actor identity derivation. A request with the owner password acts as
\* {owner, founder}; a request admitted by its api key alone acts with the
\* agentId of x-agent-id, or "unknown" when the header is absent or empty, and
\* with the agentRole of x-agent-role, or member, whatever it carries in
\* x-owner-password.
C30_IdentityDerivation ==
    probe.agentInfo # NoInfo =>
        LET h == probe.headers
        IN  IF h.password = OWNER_PASSWORD
            THEN probe.agentInfo = [agentId |-> "owner", agentRole |-> "founder"]
            ELSE /\ h.apiKey = AGENT_API_KEY
                 /\ probe.agentInfo.agentId =
                       (IF Falsy(h.agentId) THEN "unknown" ELSE h.agentId)
                 /\ probe.agentInfo.agentRole =
                       (IF Falsy(h.agentRole) THEN "member" ELSE h.agentRole)

\* ---------------------------------------------------------------------
\* Comments, clients, ownership and the denied listing

\* GET /api/cards/:id/comments: ORDER BY created_at ASC gives the comments of
\* the card in the order they were added when their created_at rise with it
listComments(id) ==
    \A i, j \in DOMAIN comments :
        i < j /\ comments[i].task_id = id /\ comments[j].task_id = id
            => comments[i].created_at < comments[j].created_at

C31_Append ==
    \A r \in Rids :
        CommentInserted(r) =>
            /\ tasks[reqs[r].id] # NoRow
            /\ Len(comments') = Len(comments) + 1
            /\ comments'[Len(comments')].task_id = reqs[r].id
            /\ comments'[Len(comments')].content = reqs[r].body.content
            /\ comments'[Len(comments')].agent_id = reqs[r].agentInfo.agentId
            /\ comments'[Len(comments')].agent_role = reqs[r].agentInfo.agentRole

C31_Unknown ==
    \A r \in Rids :
        CommentSelected(r) /\ tasks[reqs[r].id] = NoRow
            => reqs'[r].pc = "done" /\ reqs'[r].code = 404 /\ comments' = comments

C31_Kept ==
    /\ Len(comments') >= Len(comments)
    /\ SubSeq(comments', 1, Len(comments)) = comments

\* C31: comments are append-only and attach only to existing cards. The
\* INSERT of a comment is applied to a card that exists and appends one
\* comment with the actor's agentId and role; a comment on an unknown card is
\* answered 404 and appends nothing; no step edits or removes a comment; and
\* the listing of a card's comments is in the order they were added.
C31_CommentsAppendOnly ==
    /\ [](\A id \in Ids : listComments(id))
    /\ [][C31_Append /\ C31_Unknown /\ C31_Kept]_vars

\* the claim command has reported success on a card it read as unassigned,
\* run by an agent
CliClaimed ==
    /\ probe.agentRole = "agent"
    /\ reqs[1].kind = "taskClaim" /\ reqs[1].pc = "done" /\ reqs[1].code = 200
    /\ isUnassigned(reqs[1].task)

\* C32: the claim-then-move protocol of the command line client. When
\* agent-cli claim reports success for agent A on an unassigned card, the
\* card's owner_agent is A's agent id, and A's following agent-cli move to
\* Ongoing on a card in To Do, Backlog or Agent Inbox is answered 200.
C32_ClaimThenMove ==
    CliClaimed =>
        /\ tasks[probe.taskId].owner_agent = probe.agentId
        /\ reqs[2].pc = "done"
             /\ reqs[1].task.status \in {"To Do", "Backlog", "Agent Inbox"}
             => reqs[2].code = 200

\* the agent asks for a transition to `target` in this step
AgentAsks(target) == Arrives("transition") /\ reqs'[nreq + 1].status = target

\* C33: the order of the autonomous agent's steps. In every run of the loop
\* the agent claims only a card it read as unowned and in To Do, asks for
\* Ongoing only after its claim on that card was answered 200, asks for
\* Review only after its transition to Ongoing was answered 200, and never
\* asks for Done.
C33_Step ==
    /\ Arrives("claim") =>
          /\ reqs'[nreq + 1].id = probe.cardId
          /\ isUnassigned(probe.card)
          /\ probe.card.status = "To Do"
    /\ AgentAsks("Ongoing") =>
          reqs'[nreq + 1].id = probe.cardId /\ probe.claim = 200
    /\ AgentAsks("Review") =>
          reqs'[nreq + 1].id = probe.cardId /\ probe.ongoing = 200
    /\ ~AgentAsks("Done")

C33_AgentStepOrdering == [][C33_Step]_vars

\* C34: progress of the autonomous agent. With the loop running and the
\* server answering (weak fairness on both) and no other actor, every card
\* stored unowned in To Do is eventually owned by the agent and in Review,
\* and stays so.
C34_AgentProgress ==
    \A id \in Ids :
        ( /\ stored[id] # NoRow
          /\ stored[id].status = "To Do"
          /\ Falsy(stored[id].owner_agent) )
        => <>[](/\ tasks[id].owner_agent = AGENT_ID
                /\ tasks[id].status = "Review")

\* the loop has come to rest with the card that was stored unowned in To Do
\* owned by the agent, commented on, and in Review
C34_Witness ==
    \E id \in Ids :
        /\ stored[id] # NoRow
        /\ stored[id].status = "To Do" /\ Falsy(stored[id].owner_agent)
        /\ tasks[id].owner_agent = AGENT_ID /\ tasks[id].status = "Review"
        /\ \E i \in DOMAIN comments : comments[i].task_id = id
        /\ probe.pc = "idle" /\ probe.run = MaxRuns

C35_Created ==
    \A r \in Rids :
        TaskInserted(r) => ~Falsy(tasks'[reqs[r].id].owner_agent)

C35_Kept ==
    \A id \in DOMAIN tasks :
        /\ tasks[id] # NoRow /\ ~isUnassigned(tasks[id])
        /\ tasks'[id] # NoRow
        => ~isUnassigned(tasks'[id])

\* C35: ownership is never lost. The INSERT of either create gives the card a
\* non-empty owner_agent, and no step takes a card that has an owner and is
\* not deleted to a state where it has none.
C35_OwnershipNeverLost == [][C35_Created /\ C35_Kept]_vars

\* C36: in the SQLite-only server a PUT stores the request's owner_agent, or
\* the card's when the request has none, in owner_agent, and the request's
\* assignee, or the card's, in assignee; a PUT that carries neither leaves
\* both as they were.
C36_SqlitePutColumns ==
    probe.row # NoSqliteRow =>
        /\ probe.row.owner_agent =
              Or(probe.body.owner_agent, Or(probe.task.owner_agent, ""))
        /\ probe.row.assignee =
              Or(probe.body.assignee, Or(probe.task.assignee, ""))

\* C37: privilege is monotonic in the role order member < agent < founder:
\* when validateTransition or validateClaimAction allows a request for a
\* role, it allows the same request, with the same agentId on the same card,
\* for every higher role.
HigherRoles(role) ==
    CASE role = ROLES.MEMBER -> {ROLES.AGENT, ROLES.FOUNDER}
      [] role = ROLES.AGENT -> {ROLES.FOUNDER}
      [] OTHER -> {}

As(role) == [probe.agentInfo EXCEPT !.agentRole = role]

C38_PutStoresPatch ==
    probe.row # NoPatch =>
        \A f \in DOMAIN NoPatch :
            IF probe.body[f] # Undefined
            THEN probe.row[f] = probe.body[f] /\ probe.res[f] = probe.body[f]
            ELSE probe.row[f] = probe.task[f] /\ probe.res[f] = probe.task[f]

\* the rows GET /api/activity/denied selects and /api/stats counts
listDeniedActivity ==
    SelectSeq(activity_log, LAMBDA row : row.transition_allowed = 0)

\* C39: the denied-activity listing holds denials only: every activity_log
\* row with transition_allowed = 0 records a request that was denied, and the
\* rows of performed operations (create, comment, delete, update, claim) have
\* transition_allowed = 1.
PerformedActions == {"create", "comment", "delete", "update", "claim"}

C39_DeniedListingHoldsDenials ==
    /\ \A i \in DOMAIN listDeniedActivity :
          \/ listDeniedActivity[i].action = "claim_denied"
          \/ /\ listDeniedActivity[i].action = "transition"
             /\ listDeniedActivity[i].denial_reason # Null
    /\ \A i \in DOMAIN activity_log :
          activity_log[i].action \in PerformedActions
             => activity_log[i].transition_allowed = 1

====
